---- MODULE Spec2Model ----
(***************************************************************************)
(* A model of reflex (cespare/reflex): the backlog of pending paths        *)
(* (backlog.go), the debouncing batcher (workers.go, batch) and the        *)
(* executor / supervisor of a rule's command (workers.go, runEach,         *)
(* runCommand, terminate; reflex.go, main and cleanup).                    *)
(*                                                                         *)
(* Three specifications share the module:                                  *)
(*   SpecBacklog  the Backlog interface driven by arbitrary calls,         *)
(*   SpecBatch    filter -> batch -> executor hand-off of one rule,        *)
(*   SpecExec     runEach / runCommand / terminate / cleanup and the child *)
(*                processes of one rule.                                   *)
(***************************************************************************)
EXTENDS Integers, Sequences, FiniteSets, TLC

\* ------------------------------------------------------------------ bounds

\* Calls made on a backlog in SpecBacklog.
MaxOps == 7

\* Paths a rule's batcher receives in SpecBatch.
MaxArrivals == 5

\* Calls of runCommand per rule in SpecExec, the initial start of a
\* service included.
MaxRuns == 2

\* The runs made in all under SpecSeq.
MaxSeqRuns == 2

\* The capacity given to the stdout channel.
StdoutCap == 1

\* The lines a child writes at most.
MaxLines == 1

\* The messages sent on stdout under SpecOut.
MaxMsgs == 3

\* The changes made to the file system under SpecWatch.
MaxFsOps == 3

\* The longest name given to a matcher, and the calls made on it.
MaxNameLen == 2

MaxCalls == 3

\* The longest command given to NewReflex, and the calls of NewReflex.
MaxCmdLen == 2

MaxNew == 2

\* The largest rule id of a message under SpecColor.
MaxId == 6

\* The indices of the runs of a rule.
Runs == 1..(MaxRuns + MaxSeqRuns)

\* The rules of the configuration, and those whose pipelines run in SpecExec.
RuleIds == {1, 2}

ExecRules == {1}

\* The goroutines that call runCommand or terminate for a rule: main (the
\* initial start of a service), runEach, and the one cleanup() starts.
Threads == {"main", "each", "clean"}

\* A nil pointer or channel.
Nil == 0

\* The paths the watcher can report.
Paths == {"foo", "bar", "baz"}

\* Go's zero value of a string.
NoPath == ""

Range(s) == {s[i] : i \in 1..Len(s)}

NoDup(s) == \A i, j \in 1..Len(s) : i # j => s[i] # s[j]

\* ----------------------------------------------------------------- backlog

\* NewUnifiedBacklog: an empty slot.
NewUnifiedBacklog == [kind |-> "unified", s |-> NoPath, empty |-> TRUE]

\* NewUniqueFilesBacklog: no next path, an empty rest set.
NewUniqueFilesBacklog ==
    [kind |-> "unique", empty |-> TRUE, next |-> NoPath, rest |-> {}]

\* A variant of UnifiedBacklog.Add that overwrites the stored path.
UnifiedAddOverwrite(b, path) == [b EXCEPT !.s = path, !.empty = FALSE]

\* UnifiedBacklog.Add: store path only when empty, else discard it.
UnifiedAdd(b, path) ==
    IF b.empty THEN [b EXCEPT !.s = path, !.empty = FALSE] ELSE b

\* A variant of UnifiedBacklog.Next without the emptiness check.
UnifiedNextUnchecked(b) == [panic |-> FALSE, val |-> b.s]

\* UnifiedBacklog.Next: the stored path; panics when empty.
UnifiedNext(b) ==
    IF b.empty THEN [panic |-> TRUE, val |-> NoPath]
               ELSE [panic |-> FALSE, val |-> b.s]

\* A variant of UnifiedBacklog.RemoveOne that keeps the path and reports
\* the backlog as not empty.
UnifiedRemoveOneKeeps(b) ==
    IF b.empty
    THEN {[panic |-> TRUE, b |-> b, empty |-> FALSE]}
    ELSE {[panic |-> FALSE, b |-> b, empty |-> FALSE]}

\* UnifiedBacklog.RemoveOne: the outcomes (one); panics when empty.
UnifiedRemoveOne(b) ==
    IF b.empty
    THEN {[panic |-> TRUE, b |-> b, empty |-> FALSE]}
    ELSE {[panic |-> FALSE, b |-> [b EXCEPT !.empty = TRUE, !.s = NoPath],
           empty |-> TRUE]}

\* A variant of UniqueFilesBacklog.Add that does not compare with next.
UniqueAddNoNextCheck(b, path) ==
    IF b.empty THEN [b EXCEPT !.next = path, !.empty = FALSE]
    ELSE [b EXCEPT !.rest = b.rest \cup {path}, !.empty = FALSE]

\* A variant of UniqueFilesBacklog.Add that keeps the first path only.
UniqueAddDiscards(b, path) ==
    IF b.empty THEN [b EXCEPT !.next = path, !.empty = FALSE] ELSE b

\* UniqueFilesBacklog.Add: the deferred b.empty = false runs on every path.
UniqueAdd(b, path) ==
    IF b.empty THEN [b EXCEPT !.next = path, !.empty = FALSE]
    ELSE IF path = b.next THEN [b EXCEPT !.empty = FALSE]
    ELSE [b EXCEPT !.rest = b.rest \cup {path}, !.empty = FALSE]

\* UniqueFilesBacklog.Next: the distinguished next path; panics when empty.
UniqueNext(b) ==
    IF b.empty THEN [panic |-> TRUE, val |-> NoPath]
               ELSE [panic |-> FALSE, val |-> b.next]

\* A variant of UniqueFilesBacklog.RemoveOne that leaves the promoted path
\* in the rest set.
UniqueRemoveOneNoDelete(b) ==
    IF b.empty
    THEN {[panic |-> TRUE, b |-> b, empty |-> FALSE]}
    ELSE IF b.rest = {}
    THEN {[panic |-> FALSE, b |-> [b EXCEPT !.next = NoPath, !.empty = TRUE],
           empty |-> TRUE]}
    ELSE {[panic |-> FALSE, b |-> [b EXCEPT !.next = n], empty |-> FALSE] :
            n \in b.rest}

\* UniqueFilesBacklog.RemoveOne: the outcomes, one per element the map
\* iteration may yield first; panics when empty.
UniqueRemoveOne(b) ==
    IF b.empty
    THEN {[panic |-> TRUE, b |-> b, empty |-> FALSE]}
    ELSE IF b.rest = {}
    THEN {[panic |-> FALSE, b |-> [b EXCEPT !.next = NoPath, !.empty = TRUE],
           empty |-> TRUE]}
    ELSE {[panic |-> FALSE,
           b |-> [b EXCEPT !.next = n, !.rest = b.rest \ {n}],
           empty |-> FALSE] : n \in b.rest}

\* The Backlog interface, dispatched on the variant.
Add(b, path) ==
    IF b.kind = "unified" THEN UnifiedAdd(b, path) ELSE UniqueAdd(b, path)

Next(b) == IF b.kind = "unified" THEN UnifiedNext(b) ELSE UniqueNext(b)

RemoveOne(b) ==
    IF b.kind = "unified" THEN UnifiedRemoveOne(b) ELSE UniqueRemoveOne(b)

\* ------------------------------------------------------------------- state

VARIABLES
    \* SpecBacklog: a backlog under test and the history of the calls on it.
    bl,         \* the backlog
    blAdds,     \* paths added since the backlog was last empty, in order
    blOut,      \* per finished round since then, the path Next returned
    blRound,    \* the path Next returned in the round going on, or NoPath
    blClean,    \* all adds came before the first Next, and each round had a Next
    ret,        \* the last call: op, arg, backlog before, panic, val, adds, out
    nOps,       \* calls made
    \* SpecBatch: one rule's batcher between its filter and its executor.
    backlog,    \* reflex.backlog
    batchPc,    \* where batch() is: "idle", "collecting", "draining", "panic"
    timer,      \* batch's timer: "none", "armed", "fired"
    timerSet,   \* the number of the arrival at which the timer was created
    offer,      \* the value of backlog.Next() evaluated on entering the select
    execPc,     \* where runEach() is: "recv" (range names) or "busy"
    cycArr,     \* paths received since batch() last left the idle receive
    cycHanded,  \* paths handed to the executor since then
    cycLate,    \* a path was received after the first hand-off since then
    lastCycle,  \* cycArr, cycHanded, cycLate of the last finished cycle
    nArr,       \* paths received in all
    nHanded,    \* paths handed to the executor in all
    nCycles,    \* cycles finished (returns to the idle receive)
    nRuns,      \* runCommand calls made by the executor
    pending,    \* paths received and not handed to the executor since
    \* SpecExec: the executors, the supervisor and the children of the rules.
    flagSequential, \* the --sequential flag
    reflexes,   \* per rule: startService, cmd, tty, done, killed
    cmds,       \* per rule: the commands created by runCommand, in order
    thr,        \* per rule and goroutine: pc and the locals of the call
    seqCommands,\* the global mutex: <<>> when free, else <<rule, cmd>>
    cleanupPc,  \* where the signal goroutine is in cleanup()
    halt,       \* "run", "exited" (os.Exit(0)), "fatal" (os.Exit(1)), "panic"
    nTrig,      \* per rule: names runEach has received
    \* SpecSeq, SpecOut: the output of the children on its way to os.Stdout.
    decoration, \* the --decoration flag: "none", "plain" or "fancy"
    pty,        \* per rule and run: lines the child wrote, not yet scanned
    nOut,       \* per rule and run: lines the child has written
    stdout,     \* the buffered channel of OutMsg
    putLog,     \* every OutMsg sent on stdout, in the order of the sends
    printPc,    \* printOutput: the message in hand and the writes left
    outWriter,  \* the chunks written to os.Stdout, in order
    seqOrder,   \* the runs that locked seqCommands, in the order of locking
    \* SpecWatch: the watcher, the file system and the filters of the rules.
    watchRules, \* per rule: onlyFiles/onlyDirs and the prefixes it excludes
    fsExists,   \* the paths that exist in the file system
    watched,    \* the directories added to the native watcher
    wevents,    \* watcher.Events: the events not yet handled by watch
    names,      \* what watch sent on names, with the event it came from
    fidx,       \* per rule: how many of names filterMatching has handled
    triggered,  \* per rule: the indices in names that passed the filter
    flog,       \* per rule and name taken: the stat made, the name sent on
    watchPc,    \* where watch is: "start", "loop" or "panic"
    lastWalk,   \* the root of the last walk and the directories it added
    nFs,        \* changes made to the file system
    \* SpecMatch: a matcher and the calls made on it.
    matchers,   \* the sub-matchers of the multiMatcher, with their caches
    mret,       \* the last call: op, arg, result, result of each child
    nCalls,     \* calls made
    \* SpecNew: the calls of NewReflex.
    nrArg,      \* the Config NewReflex is called for
    nrRet,      \* what the last call returned, or that it ended the process
    reflexID,   \* the global counter of the rule ids
    nNew        \* calls made

blVars == <<bl, blAdds, blOut, blRound, blClean, ret, nOps>>

batchVars ==
    <<backlog, batchPc, timer, timerSet, pending, offer, execPc, cycArr,
      cycHanded, cycLate, lastCycle, nArr, nHanded, nCycles, nRuns>>

outVars ==
    <<decoration, pty, nOut, stdout, putLog, printPc, outWriter, seqOrder>>

execVars ==
    <<flagSequential, reflexes, cmds, thr, seqCommands, cleanupPc, halt,
      nTrig, outVars>>

watchVars ==
    <<watchRules, fsExists, watched, wevents, names, fidx, triggered, flog,
      watchPc,
      lastWalk, nFs>>

matchVars == <<matchers, mret, nCalls>>

newVars == <<nrArg, nrRet, reflexID, nNew>>

restVars == <<newVars>>

vars == <<blVars, batchVars, execVars, watchVars, matchVars, restVars>>

NoCall ==
    [op |-> "none", arg |-> NoPath, before |-> NewUnifiedBacklog,
     panic |-> FALSE, val |-> NoPath, empty |-> FALSE,
     adds |-> <<>>, out |-> <<>>, clean |-> TRUE]

NoCycle == [arr |-> <<>>, handed |-> <<>>, late |-> FALSE]

\* The values the variables of one specification keep under the others.
BacklogUnused ==
    /\ bl = NewUnifiedBacklog
    /\ blAdds = <<>>
    /\ blOut = <<>>
    /\ blRound = NoPath
    /\ blClean = TRUE
    /\ ret = NoCall
    /\ nOps = 0

BatchUnused ==
    /\ backlog = NewUnifiedBacklog
    /\ batchPc = "idle"
    /\ timer = "none"
    /\ timerSet = 0
    /\ pending = {}
    /\ offer = NoPath
    /\ execPc = "recv"
    /\ cycArr = <<>>
    /\ cycHanded = <<>>
    /\ cycLate = FALSE
    /\ lastCycle = NoCycle
    /\ nArr = 0
    /\ nHanded = 0
    /\ nCycles = 0
    /\ nRuns = 0

WatchUnused ==
    /\ watchRules = [r \in RuleIds |-> [only |-> "none", excl |-> {}]]
    /\ fsExists = {}
    /\ watched = {}
    /\ wevents = <<>>
    /\ names = <<>>
    /\ fidx = [r \in RuleIds |-> 0]
    /\ triggered = [r \in RuleIds |-> <<>>]
    /\ flog = [r \in RuleIds |-> <<>>]
    /\ watchPc = "start"
    /\ lastWalk = [root |-> <<>>, added |-> {}]
    /\ nFs = 0

MatchUnused ==
    /\ matchers = <<>>
    /\ mret = [op |-> "none", arg |-> <<>>, res |-> FALSE, sub |-> <<>>]
    /\ nCalls = 0

\* No Config was made into a rule.
NoConfig ==
    [regex |-> "", glob |-> "", subSymbol |-> <<>>, startService |-> FALSE,
     onlyFiles |-> FALSE, onlyDirs |-> FALSE, command |-> <<>>]

\* The nil *Reflex that NewReflex returns with an error.
NoReflex ==
    [id |-> -1, startService |-> FALSE, backlog |-> [kind |-> "none"],
     useRegex |-> FALSE, onlyFiles |-> FALSE, onlyDirs |-> FALSE,
     command |-> <<>>, subSymbol |-> <<>>]

NewUnused ==
    /\ nrArg = NoConfig
    /\ nrRet = [out |-> "none", reflex |-> NoReflex]
    /\ reflexID = 0
    /\ nNew = 0

RestUnused == NewUnused

\* NewReflex: the runtime fields of a rule start as zero values.
NewReflex(service) ==
    [startService |-> service, cmd |-> Nil, tty |-> Nil, done |-> Nil,
     killed |-> FALSE]

\* A goroutine that has not started its call.
NewThread(pc) ==
    [pc |-> pc, cmd |-> Nil, ch |-> Nil, first |-> TRUE, timer |-> "none",
     log |-> <<>>]

\* What cleanup's "fmt.Println(reason)" writes to os.Stdout, in one write.
ReasonLine ==
    [kind |-> "reason",
     msg |-> [reflexID |-> 0, run |-> 0, n |-> 0, nl |-> TRUE]]

\* printOutput between two messages.
PrintIdle == [busy |-> FALSE, rest |-> <<>>]

OutUnused ==
    /\ decoration = "plain"
    /\ pty = [r \in RuleIds |-> [c \in Runs |-> <<>>]]
    /\ nOut = [r \in RuleIds |-> [c \in Runs |-> 0]]
    /\ stdout = <<>>
    /\ putLog = <<>>
    /\ printPc = PrintIdle
    /\ outWriter = <<>>
    /\ seqOrder = <<>>

ExecUnused ==
    /\ OutUnused
    /\ flagSequential = FALSE
    /\ reflexes = [r \in RuleIds |-> NewReflex(FALSE)]
    /\ cmds = [r \in RuleIds |-> <<>>]
    /\ thr = [r \in RuleIds |-> [t \in Threads |-> NewThread("off")]]
    /\ seqCommands = <<>>
    /\ cleanupPc = "idle"
    /\ halt = "run"
    /\ nTrig = [r \in RuleIds |-> 0]

\* ------------------------------------------------------------- SpecBacklog

InitBacklog ==
    /\ WatchUnused
    /\ MatchUnused
    /\ RestUnused
    /\ bl \in {NewUnifiedBacklog, NewUniqueFilesBacklog}
    /\ blAdds = <<>>
    /\ blOut = <<>>
    /\ blRound = NoPath
    /\ blClean = TRUE
    /\ ret = NoCall
    /\ nOps = 0
    /\ BatchUnused
    /\ ExecUnused

\* b.Add(path)
CallAdd(path) ==
    /\ nOps < MaxOps
    /\ nOps' = nOps + 1
    /\ bl' = Add(bl, path)
    /\ blAdds' = Append(blAdds, path)
    /\ blClean' = (blClean /\ blOut = <<>> /\ blRound = NoPath)
    /\ ret' = [NoCall EXCEPT !.op = "Add", !.arg = path, !.before = bl,
                             !.adds = blAdds', !.out = blOut,
                             !.clean = blClean']
    /\ UNCHANGED <<blOut, blRound>>
    /\ UNCHANGED <<batchVars, execVars, watchVars, matchVars, restVars>>

\* b.Next(), also on an empty backlog (the call panics and is recovered)
CallNext ==
    /\ nOps < MaxOps
    /\ nOps' = nOps + 1
    /\ LET r == Next(bl) IN
        /\ ret' = [NoCall EXCEPT !.op = "Next", !.before = bl,
                                 !.panic = r.panic, !.val = r.val,
                                 !.adds = blAdds, !.out = blOut,
                                 !.clean = blClean]
        /\ blRound' = IF r.panic THEN blRound ELSE r.val
    /\ UNCHANGED <<bl, blAdds, blOut, blClean>>
    /\ UNCHANGED <<batchVars, execVars, watchVars, matchVars, restVars>>

\* b.RemoveOne(), also on an empty backlog
CallRemoveOne ==
    /\ nOps < MaxOps
    /\ nOps' = nOps + 1
    /\ \E r \in RemoveOne(bl) :
        LET out == IF blRound # NoPath THEN Append(blOut, blRound) ELSE blOut
            clean == blClean /\ blRound # NoPath
        IN  /\ bl' = r.b
            /\ ret' = [NoCall EXCEPT !.op = "RemoveOne", !.before = bl,
                                     !.panic = r.panic, !.empty = r.empty,
                                     !.adds = blAdds, !.out = out,
                                     !.clean = clean]
            /\ IF r.panic
               THEN UNCHANGED <<blAdds, blOut, blRound, blClean>>
               ELSE IF r.empty
               THEN /\ blAdds' = <<>>
                    /\ blOut' = <<>>
                    /\ blRound' = NoPath
                    /\ blClean' = TRUE
               ELSE /\ blOut' = out
                    /\ blRound' = NoPath
                    /\ blClean' = clean
                    /\ UNCHANGED blAdds
    /\ UNCHANGED <<batchVars, execVars, watchVars, matchVars, restVars>>

NextBacklog ==
    \/ \E path \in Paths : CallAdd(path)
    \/ CallNext
    \/ CallRemoveOne

SpecBacklog == InitBacklog /\ [][NextBacklog]_vars

\* --------------------------------------------------------------- SpecBatch

\* NewReflex: a UniqueFilesBacklog when a command token contains the
\* substitution symbol, a UnifiedBacklog otherwise.
NewBacklog(substitution) ==
    IF substitution THEN NewUniqueFilesBacklog ELSE NewUnifiedBacklog

InitBatch ==
    /\ WatchUnused
    /\ MatchUnused
    /\ RestUnused
    /\ \E substitution \in BOOLEAN : backlog = NewBacklog(substitution)
    /\ batchPc = "idle"
    /\ timer = "none"
    /\ timerSet = 0
    /\ pending = {}
    /\ offer = NoPath
    /\ execPc = "recv"
    /\ cycArr = <<>>
    /\ cycHanded = <<>>
    /\ cycLate = FALSE
    /\ lastCycle = NoCycle
    /\ nArr = 0
    /\ nHanded = 0
    /\ nCycles = 0
    /\ nRuns = 0
    /\ BacklogUnused
    /\ ExecUnused

\* Entering the inner select evaluates reflex.backlog.Next() for its send
\* case; on an empty backlog that panics.
EnterDrain(b) ==
    /\ batchPc' = IF Next(b).panic THEN "panic" ELSE "draining"
    /\ offer' = Next(b).val

\* A variant of batch that does not add the first path of a cycle.
BatchFirstNoAdd(name) ==
    /\ pending' = pending \cup {name}
    /\ batchPc = "idle"
    /\ nArr < MaxArrivals
    /\ backlog' = backlog
    /\ timer' = "armed"
    /\ timerSet' = nArr + 1
    /\ batchPc' = "collecting"
    /\ cycArr' = <<name>>
    /\ cycHanded' = <<>>
    /\ cycLate' = FALSE
    /\ nArr' = nArr + 1
    /\ UNCHANGED <<offer, execPc, lastCycle, nHanded, nCycles, nRuns>>
    /\ UNCHANGED <<blVars, execVars, watchVars, matchVars, restVars>>

\* batch, "for name := range in": the first path of a cycle is added and the
\* timer is created.
BatchFirst(name) ==
    /\ pending' = pending \cup {name}
    /\ batchPc = "idle"
    /\ nArr < MaxArrivals
    /\ backlog' = Add(backlog, name)
    /\ timer' = "armed"
    /\ timerSet' = nArr + 1
    /\ batchPc' = "collecting"
    /\ cycArr' = <<name>>
    /\ cycHanded' = <<>>
    /\ cycLate' = FALSE
    /\ nArr' = nArr + 1
    /\ UNCHANGED <<offer, execPc, lastCycle, nHanded, nCycles, nRuns>>
    /\ UNCHANGED <<blVars, execVars, watchVars, matchVars, restVars>>

\* batch, outer select, "case name := <-in": the path is added; the timer
\* keeps running.
BatchCollect(name) ==
    /\ pending' = pending \cup {name}
    /\ batchPc = "collecting"
    /\ nArr < MaxArrivals
    /\ backlog' = Add(backlog, name)
    /\ cycArr' = Append(cycArr, name)
    /\ nArr' = nArr + 1
    /\ UNCHANGED <<batchPc, timer, timerSet, offer, execPc, cycHanded, cycLate,
                   lastCycle, nHanded, nCycles, nRuns>>
    /\ UNCHANGED <<blVars, execVars, watchVars, matchVars, restVars>>

\* The runtime fires the timer: a value is ready on timer.C.
TimerFire ==
    /\ UNCHANGED pending
    /\ timer = "armed"
    /\ timer' = "fired"
    /\ UNCHANGED <<timerSet, backlog, batchPc, offer, execPc, cycArr, cycHanded,
                   cycLate, lastCycle, nArr, nHanded, nCycles, nRuns>>
    /\ UNCHANGED <<blVars, execVars, watchVars, matchVars, restVars>>

\* A variant of the outer select that starts draining without the timer.
BatchTimerNoWait ==
    /\ UNCHANGED pending
    /\ batchPc = "collecting"
    /\ timer' = "none"
    /\ EnterDrain(backlog)
    /\ UNCHANGED <<timerSet, backlog, execPc, cycArr, cycHanded, cycLate,
                   lastCycle, nArr, nHanded, nCycles, nRuns>>
    /\ UNCHANGED <<blVars, execVars, watchVars, matchVars, restVars>>

\* batch, outer select, "case <-timer.C": start draining.
BatchTimer ==
    /\ UNCHANGED pending
    /\ batchPc = "collecting"
    /\ timer = "fired"
    /\ timer' = "none"
    /\ EnterDrain(backlog)
    /\ UNCHANGED <<timerSet, backlog, execPc, cycArr, cycHanded, cycLate, lastCycle,
                   nArr, nHanded, nCycles, nRuns>>
    /\ UNCHANGED <<blVars, execVars, watchVars, matchVars, restVars>>

\* A variant of the inner select that takes a path only when the executor
\* is at its receive.
BatchDrainRecvBlocked(name) ==
    /\ pending' = pending \cup {name}
    /\ batchPc = "draining"
    /\ execPc = "recv"
    /\ nArr < MaxArrivals
    /\ backlog' = Add(backlog, name)
    /\ EnterDrain(backlog')
    /\ cycArr' = Append(cycArr, name)
    /\ cycLate' = (cycLate \/ cycHanded # <<>>)
    /\ nArr' = nArr + 1
    /\ UNCHANGED <<timer, timerSet, execPc, cycHanded, lastCycle, nHanded,
                   nCycles, nRuns>>
    /\ UNCHANGED <<blVars, execVars, watchVars, matchVars, restVars>>

\* batch, inner select, "case name := <-in": keep batching while the executor
\* has not taken the offered path.
BatchDrainRecv(name) ==
    /\ pending' = pending \cup {name}
    /\ batchPc = "draining"
    /\ nArr < MaxArrivals
    /\ backlog' = Add(backlog, name)
    /\ EnterDrain(backlog')
    /\ cycArr' = Append(cycArr, name)
    /\ cycLate' = (cycLate \/ cycHanded # <<>>)
    /\ nArr' = nArr + 1
    /\ UNCHANGED <<timer, timerSet, execPc, cycHanded, lastCycle, nHanded,
                   nCycles,
                   nRuns>>
    /\ UNCHANGED <<blVars, execVars, watchVars, matchVars, restVars>>

\* batch, inner select, "case out <- reflex.backlog.Next()", taken when
\* runEach is at "range names": the executor gets the path, RemoveOne is
\* called, and an empty backlog ends the cycle (break outer).
BatchSend ==
    /\ pending' = IF backlog.kind = "unified" THEN {} ELSE pending \ {offer}
    /\ batchPc = "draining"
    /\ execPc = "recv"
    /\ execPc' = "busy"
    /\ nHanded' = nHanded + 1
    /\ \E r \in RemoveOne(backlog) :
        /\ backlog' = r.b
        /\ IF r.panic
           THEN /\ batchPc' = "panic"
                /\ UNCHANGED <<offer, cycArr, cycHanded, cycLate, lastCycle,
                               nCycles>>
           ELSE IF r.empty
           THEN /\ batchPc' = "idle"
                /\ lastCycle' = [arr |-> cycArr,
                                 handed |-> Append(cycHanded, offer),
                                 late |-> cycLate]
                /\ cycArr' = <<>>
                /\ cycHanded' = <<>>
                /\ cycLate' = FALSE
                /\ nCycles' = nCycles + 1
                /\ UNCHANGED offer
           ELSE /\ EnterDrain(r.b)
                /\ cycHanded' = Append(cycHanded, offer)
                /\ UNCHANGED <<cycArr, cycLate, lastCycle, nCycles>>
    /\ UNCHANGED <<timer, timerSet, nArr, nRuns>>
    /\ UNCHANGED <<blVars, execVars, watchVars, matchVars, restVars>>

\* runEach, the loop body: the command is run on the received name, and the
\* executor comes back to "range names".
ExecRun ==
    /\ UNCHANGED pending
    /\ execPc = "busy"
    /\ execPc' = "recv"
    /\ nRuns' = nRuns + 1
    /\ UNCHANGED <<backlog, batchPc, timer, timerSet, offer, cycArr, cycHanded,
                   cycLate, lastCycle, nArr, nHanded, nCycles>>
    /\ UNCHANGED <<blVars, execVars, watchVars, matchVars, restVars>>

NextBatch ==
    \/ \E name \in Paths : BatchFirst(name)
    \/ \E name \in Paths : BatchCollect(name)
    \/ TimerFire
    \/ BatchTimer
    \/ \E name \in Paths : BatchDrainRecv(name)
    \/ BatchSend
    \/ ExecRun

SpecBatch == InitBatch /\ [][NextBatch]_vars

\* SpecBatch with a timer that fires, a batcher goroutine that runs when it
\* can take a step, and an executor that comes back to its receive.
FairBatch ==
    /\ SpecBatch
    /\ WF_vars(TimerFire)
    /\ WF_vars(BatchTimer)
    /\ WF_vars(BatchSend)
    /\ WF_vars(ExecRun)

\* ---------------------------------------------------------------- SpecExec

\* exec.Command: a command that pty.Start has not started yet.
NewCmd ==
    [state |-> "new", status |-> "none", stubborn |-> FALSE,
     wpc |-> "none", reported |-> FALSE, recvBy |-> "none",
     termInit |-> FALSE]

\* main: the rules are constructed, runEach is started for each of them,
\* and main itself makes the initial runCommand of a service rule.
InitExec ==
    /\ WatchUnused
    /\ MatchUnused
    /\ RestUnused
    /\ flagSequential \in BOOLEAN
    /\ \E service \in BOOLEAN :
        /\ reflexes = [r \in RuleIds |-> NewReflex(r \in ExecRules /\ service)]
        /\ thr = [r \in RuleIds |-> [t \in Threads |->
                    IF r \notin ExecRules THEN NewThread("off")
                    ELSE IF t = "each" THEN NewThread("recv")
                    ELSE IF t = "main" /\ service THEN NewThread("rc_new")
                    ELSE NewThread("off")]]
    /\ cmds = [r \in RuleIds |-> <<>>]
    /\ seqCommands = <<>>
    /\ cleanupPc = "idle"
    /\ halt = "run"
    /\ nTrig = [r \in RuleIds |-> 0]
    /\ OutUnused
    /\ BacklogUnused
    /\ BatchUnused

NotExec == <<blVars, batchVars, outVars, watchVars, matchVars, restVars>>

Running == halt = "run"

\* Where the caller of runCommand goes on when runCommand returns.
AfterRunCommand(r, t) ==
    IF t = "main" THEN "fin"
    ELSE IF reflexes[r].startService THEN "recv"
    ELSE "w_enter"

\* Where the caller of terminate goes on when terminate returns.
AfterTerminate(r, t) == IF t = "each" THEN "rc_new" ELSE "fin"

\* runEach, "for name := range names": a name is received from the batcher.
EachRecv(r) ==
    /\ Running
    /\ thr[r]["each"].pc = "recv"
    /\ nTrig[r] + (IF reflexes[r].startService THEN 1 ELSE 0) < MaxRuns
    /\ nTrig' = [nTrig EXCEPT ![r] = @ + 1]
    /\ thr' = [thr EXCEPT ![r]["each"].pc =
                    IF reflexes[r].startService THEN "svc_check" ELSE "rc_new"]
    /\ UNCHANGED <<flagSequential, reflexes, cmds, seqCommands, cleanupPc,
                   halt>>
    /\ UNCHANGED NotExec

\* runEach, service: "if reflex.done != nil" terminate, then runCommand.
EachSvcCheck(r) ==
    /\ Running
    /\ thr[r]["each"].pc = "svc_check"
    /\ thr' = [thr EXCEPT ![r]["each"].pc =
                    IF reflexes[r].done # Nil THEN "t_kill" ELSE "rc_new"]
    /\ UNCHANGED <<flagSequential, reflexes, cmds, seqCommands, cleanupPc,
                   halt, nTrig>>
    /\ UNCHANGED NotExec

\* runCommand: "cmd := exec.Command(...); reflex.cmd = cmd".
RcNew(r, t) ==
    /\ Running
    /\ thr[r][t].pc = "rc_new"
    /\ cmds' = [cmds EXCEPT ![r] = Append(@, NewCmd)]
    /\ reflexes' = [reflexes EXCEPT ![r].cmd = Len(cmds'[r])]
    /\ thr' = [thr EXCEPT ![r][t].cmd = Len(cmds'[r]),
                          ![r][t].log = <<>>,
                          ![r][t].pc = IF flagSequential THEN "rc_lock"
                                       ELSE "rc_start"]
    /\ UNCHANGED <<flagSequential, seqCommands, cleanupPc, halt, nTrig>>
    /\ UNCHANGED NotExec

\* A variant of runCommand that does not wait for seqCommands to be free.
RcLockNoWait(r, t) ==
    /\ Running
    /\ thr[r][t].pc = "rc_lock"
    /\ seqCommands' = <<r, thr[r][t].cmd>>
    /\ seqOrder' = Append(seqOrder, <<r, thr[r][t].cmd>>)
    /\ thr' = [thr EXCEPT ![r][t].pc = "rc_start"]
    /\ UNCHANGED <<flagSequential, reflexes, cmds, cleanupPc, halt, nTrig>>
    /\ UNCHANGED <<decoration, pty, nOut, stdout, putLog, printPc, outWriter>>
    /\ UNCHANGED <<blVars, batchVars, watchVars, matchVars, restVars>>

\* runCommand: "if flagSequential { seqCommands.Lock() }".
RcLock(r, t) ==
    /\ Running
    /\ thr[r][t].pc = "rc_lock"
    /\ seqCommands = <<>>
    /\ seqCommands' = <<r, thr[r][t].cmd>>
    /\ seqOrder' = Append(seqOrder, <<r, thr[r][t].cmd>>)
    /\ thr' = [thr EXCEPT ![r][t].pc = "rc_start"]
    /\ UNCHANGED <<flagSequential, reflexes, cmds, cleanupPc, halt, nTrig>>
    /\ UNCHANGED <<decoration, pty, nOut, stdout, putLog, printPc, outWriter>>
    /\ UNCHANGED <<blVars, batchVars, watchVars, matchVars, restVars>>

\* runCommand: "tty, err := pty.Start(cmd)". On an error the info line is
\* printed and runCommand returns; else a child is alive, one that can exit
\* by itself or one that only SIGKILL ends, and "reflex.tty = tty" (a field
\* only terminate's write of the Ctrl-C byte reads).
RcStart(r, t) ==
    /\ Running
    /\ thr[r][t].pc = "rc_start"
    /\ \E ok \in BOOLEAN, stubborn \in BOOLEAN :
        /\ ~ok => ~stubborn
        /\ cmds' = [cmds EXCEPT
                ![r][thr[r][t].cmd].state = IF ok THEN "alive" ELSE "failed",
                ![r][thr[r][t].cmd].stubborn = stubborn]
        /\ reflexes' = IF ok THEN [reflexes EXCEPT ![r].tty = thr[r][t].cmd]
                       ELSE reflexes
        /\ thr' = [thr EXCEPT
                ![r][t].pc = IF ok THEN "rc_done" ELSE AfterRunCommand(r, t),
                ![r][t].cmd = IF ok THEN @ ELSE Nil]
    /\ UNCHANGED <<flagSequential, seqCommands, cleanupPc, halt, nTrig>>
    /\ UNCHANGED NotExec

\* runCommand: "done := make(chan struct{}); reflex.done = done", the
\* goroutine that waits for the child is started, and runCommand returns.
RcDone(r, t) ==
    /\ Running
    /\ thr[r][t].pc = "rc_done"
    /\ reflexes' = [reflexes EXCEPT ![r].done = thr[r][t].cmd]
    /\ cmds' = [cmds EXCEPT ![r][thr[r][t].cmd].wpc = "wait"]
    /\ thr' = [thr EXCEPT ![r][t].pc = AfterRunCommand(r, t),
                          ![r][t].cmd = Nil]
    /\ UNCHANGED <<flagSequential, seqCommands, cleanupPc, halt, nTrig>>
    /\ UNCHANGED NotExec

\* The child exits by itself, with status 0 or not.
ChildExit(r, c) ==
    /\ Running
    /\ cmds[r][c].state = "alive"
    /\ ~cmds[r][c].stubborn
    /\ \E status \in {"ok", "err"} :
        cmds' = [cmds EXCEPT ![r][c].state = "exited",
                             ![r][c].status = status]
    /\ UNCHANGED <<flagSequential, reflexes, thr, seqCommands, cleanupPc,
                   halt, nTrig>>
    /\ UNCHANGED NotExec

\* Whether the waiting goroutine prints "(error exit: ...)".
ReportsErrorExit(killed, status) == ~killed /\ status = "err"

\* The waiting goroutine: "err := cmd.Wait()" returns once the child
\* exited, killed is read under reflex.mut, and the error exit line is sent
\* to stdout "if !killed && err != nil".
WaiterWait(r, c) ==
    /\ Running
    /\ cmds[r][c].wpc = "wait"
    /\ cmds[r][c].state = "exited"
    /\ cmds' = [cmds EXCEPT
            ![r][c].state = "reaped",
            ![r][c].reported =
                ReportsErrorExit(reflexes[r].killed, cmds[r][c].status),
            ![r][c].wpc = "send"]
    /\ UNCHANGED <<flagSequential, reflexes, thr, seqCommands, cleanupPc,
                   halt, nTrig>>
    /\ UNCHANGED NotExec

\* The waiting goroutine: "done <- struct{}{}" on the unbuffered channel of
\* the run, taken by a goroutine blocked on that channel: runEach at
\* "<-reflex.done", or terminate in its select (which then returns).
WaiterSend(r, c, t) ==
    /\ Running
    /\ cmds[r][c].wpc = "send"
    /\ thr[r][t].pc \in {"w_wait", "t_wait"}
    /\ thr[r][t].ch = c
    /\ cmds' = [cmds EXCEPT ![r][c].recvBy = t,
                            ![r][c].wpc = IF flagSequential THEN "unlock"
                                          ELSE "fin"]
    /\ thr' = [thr EXCEPT
            ![r][t].pc = IF thr[r][t].pc = "w_wait" THEN "w_clear"
                         ELSE AfterTerminate(r, t),
            ![r][t].ch = Nil,
            ![r][t].timer = "none",
            ![r][t].first = TRUE,
            ![r][t].log = IF thr[r][t].pc = "w_wait" THEN @
                          ELSE @ \o <<"done", "return">>]
    /\ UNCHANGED <<flagSequential, reflexes, seqCommands, cleanupPc, halt,
                   nTrig>>
    /\ UNCHANGED NotExec

\* The waiting goroutine: "if flagSequential { seqCommands.Unlock() }".
WaiterUnlock(r, c) ==
    /\ Running
    /\ cmds[r][c].wpc = "unlock"
    /\ seqCommands' = <<>>
    /\ cmds' = [cmds EXCEPT ![r][c].wpc = "fin"]
    /\ UNCHANGED <<flagSequential, reflexes, thr, cleanupPc, halt, nTrig>>
    /\ UNCHANGED NotExec

\* A variant of runEach that does not wait for the done signal of a run.
EachNoWait(r) ==
    /\ Running
    /\ thr[r]["each"].pc = "w_enter"
    /\ thr' = [thr EXCEPT ![r]["each"].pc = "recv"]
    /\ UNCHANGED <<flagSequential, reflexes, cmds, seqCommands, cleanupPc,
                   halt, nTrig>>
    /\ UNCHANGED NotExec

\* runEach, not a service: "<-reflex.done" evaluates the channel.
EachWaitEnter(r) ==
    /\ Running
    /\ thr[r]["each"].pc = "w_enter"
    /\ thr' = [thr EXCEPT ![r]["each"].ch = reflexes[r].done,
                          ![r]["each"].pc = "w_wait"]
    /\ UNCHANGED <<flagSequential, reflexes, cmds, seqCommands, cleanupPc,
                   halt, nTrig>>
    /\ UNCHANGED NotExec

\* runEach, not a service: "reflex.done = nil", back to "range names".
EachClear(r) ==
    /\ Running
    /\ thr[r]["each"].pc = "w_clear"
    /\ reflexes' = [reflexes EXCEPT ![r].done = Nil]
    /\ thr' = [thr EXCEPT ![r]["each"].pc = "recv"]
    /\ UNCHANGED <<flagSequential, cmds, seqCommands, cleanupPc, halt, nTrig>>
    /\ UNCHANGED NotExec

\* terminate: "reflex.killed = true" under reflex.mut. Termination is now
\* initiated for every run of the rule whose exit has not been reported on.
TermKill(r, t) ==
    /\ Running
    /\ thr[r][t].pc = "t_kill"
    /\ reflexes' = [reflexes EXCEPT ![r].killed = TRUE]
    /\ cmds' = [cmds EXCEPT ![r] = [c \in DOMAIN @ |->
                    IF @[c].wpc \in {"none", "wait"}
                    THEN [@[c] EXCEPT !.termInit = TRUE] ELSE @[c]]]
    /\ thr' = [thr EXCEPT ![r][t].pc = "t_write",
                          ![r][t].first = TRUE,
                          ![r][t].timer = "none",
                          ![r][t].log = <<"killed">>]
    /\ UNCHANGED <<flagSequential, seqCommands, cleanupPc, halt, nTrig>>
    /\ UNCHANGED NotExec

\* terminate: "reflex.tty.Write([]byte{3})" (an error is ignored),
\* "timer := time.NewTimer(500 * time.Millisecond)", and the select is
\* entered, which evaluates reflex.done.
TermWrite(r, t) ==
    /\ Running
    /\ thr[r][t].pc = "t_write"
    /\ thr' = [thr EXCEPT ![r][t].pc = "t_wait",
                          ![r][t].timer = "armed",
                          ![r][t].ch = reflexes[r].done,
                          ![r][t].log = Append(@, "ctrlc")]
    /\ UNCHANGED <<flagSequential, reflexes, cmds, seqCommands, cleanupPc,
                   halt, nTrig>>
    /\ UNCHANGED NotExec

\* terminate: entering the select again evaluates reflex.done again.
TermEnter(r, t) ==
    /\ Running
    /\ thr[r][t].pc = "t_enter"
    /\ thr' = [thr EXCEPT ![r][t].pc = "t_wait",
                          ![r][t].ch = reflexes[r].done]
    /\ UNCHANGED <<flagSequential, reflexes, cmds, seqCommands, cleanupPc,
                   halt, nTrig>>
    /\ UNCHANGED NotExec

\* terminate, select, "case <-timer.C": the timeout has elapsed, the timer
\* has fired and the select takes its value; the info line is printed. The
\* timer is never reset, so it fires once per call of terminate.
TermTimeout(r, t) ==
    /\ Running
    /\ thr[r][t].pc = "t_wait"
    /\ thr[r][t].timer = "armed"
    /\ thr' = [thr EXCEPT ![r][t].pc = "t_signal",
                          ![r][t].timer = "spent",
                          ![r][t].log = Append(@, "timeout")]
    /\ UNCHANGED <<flagSequential, reflexes, cmds, seqCommands, cleanupPc,
                   halt, nTrig>>
    /\ UNCHANGED NotExec

\* A variant of terminate that starts with SIGKILL.
SigKillFirst(first) == "sigkill"

\* The signal terminate sends: SIGINT first, SIGKILL from then on.
Sig(first) == IF first THEN "sigint" ELSE "sigkill"

\* The outcomes of reflex.cmd.Process.Signal(sig) by the state of the
\* command: Process is nil before pty.Start and after its failure (a nil
\* dereference, or an error, by the version of package os); a child that
\* was not waited for yet gets the signal; after Wait the call fails with
\* "os: process already finished" or, racing with Wait, "no such process".
SignalOutcomes(state) ==
    CASE state \in {"new", "failed"} -> {"panic", "error"}
      [] state \in {"alive", "exited"} -> {"sent"}
      [] OTHER -> {"error", "esrch"}

\* terminate: "reflex.cmd.Process.Signal(sig)", return on "no such
\* process", and "if first { first = false; sig = syscall.SIGKILL }".
TermSignal(r, t) ==
    /\ Running
    /\ thr[r][t].pc = "t_signal"
    /\ LET c == reflexes[r].cmd
           sig == Sig(thr[r][t].first)
       IN \E o \in SignalOutcomes(cmds[r][c].state) :
            /\ halt' = IF o = "panic" THEN "panic" ELSE halt
            /\ cmds' = IF o = "sent" /\ sig = "sigkill"
                          /\ cmds[r][c].state = "alive"
                       THEN [cmds EXCEPT ![r][c].state = "exited",
                                         ![r][c].status = "err"]
                       ELSE cmds
            /\ thr' = [thr EXCEPT
                    ![r][t].log = IF o = "esrch"
                                  THEN @ \o <<sig, "esrch", "return">>
                                  ELSE Append(@, sig),
                    ![r][t].first = (o = "esrch"),
                    ![r][t].timer = IF o = "esrch" THEN "none" ELSE @,
                    ![r][t].ch = Nil,
                    ![r][t].pc = IF o = "esrch" THEN AfterTerminate(r, t)
                                 ELSE "t_enter"]
    /\ UNCHANGED <<flagSequential, reflexes, seqCommands, cleanupPc, nTrig>>
    /\ UNCHANGED NotExec

\* main's signal goroutine: SIGINT or SIGTERM arrives and cleanup() takes
\* cleanupMut.
SigReceived ==
    /\ Running
    /\ cleanupPc = "idle"
    /\ cleanupPc' = "scan"
    /\ outWriter' = Append(outWriter, ReasonLine)
    /\ UNCHANGED <<flagSequential, reflexes, cmds, thr, seqCommands, halt,
                   nTrig>>
    /\ UNCHANGED <<decoration, pty, nOut, stdout, putLog, printPc, seqOrder>>
    /\ UNCHANGED <<blVars, batchVars, watchVars, matchVars, restVars>>

\* A child of the rule that is alive, or Nil when there is none.
RunningChild(r) ==
    IF \E c \in DOMAIN cmds[r] : cmds[r][c].state = "alive"
    THEN CHOOSE c \in DOMAIN cmds[r] : cmds[r][c].state = "alive"
    ELSE Nil

\* cleanup, "if reflex.done != nil { go terminate(reflex) }": what becomes
\* of the goroutine of the rule.
CleanupDecides(done) == IF done # Nil THEN "t_kill" ELSE "skip"

\* cleanup: "for _, reflex := range reflexes { if reflex.done != nil {
\* go terminate(reflex) } }", one rule at a time in the order of reflexes.
\* The child that is alive at that moment is kept in the cmd field of the
\* goroutine, which terminate does not use.
CleanupScan(r) ==
    /\ Running
    /\ cleanupPc = "scan"
    /\ thr[r]["clean"].pc = "off"
    /\ \A q \in ExecRules : q < r => thr[q]["clean"].pc # "off"
    /\ thr' = [thr EXCEPT ![r]["clean"].pc = CleanupDecides(reflexes[r].done),
                          ![r]["clean"].cmd = RunningChild(r)]
    /\ UNCHANGED <<flagSequential, reflexes, cmds, seqCommands, cleanupPc,
                   halt, nTrig>>
    /\ UNCHANGED NotExec

\* cleanup: "wg.Wait()" returns when every terminate it started returned;
\* then, after the 10 ms pause, "os.Exit(0)".
CleanupExit ==
    /\ Running
    /\ cleanupPc = "scan"
    /\ \A q \in ExecRules : thr[q]["clean"].pc \in {"skip", "fin"}
    /\ cleanupPc' = "exit"
    /\ halt' = "exited"
    /\ UNCHANGED <<flagSequential, reflexes, cmds, thr, seqCommands, nTrig>>
    /\ UNCHANGED NotExec

\* main, "Fatalln(<-done)": the watcher reports an error, watch sends it on
\* done, and main, which has started every goroutine, prints it and calls
\* os.Exit(1). The process ends there: no deferred call is run.
MainFatal ==
    /\ Running
    /\ \A r \in ExecRules : thr[r]["main"].pc \in {"off", "fin"}
    /\ halt' = "fatal"
    /\ UNCHANGED <<flagSequential, reflexes, cmds, thr, seqCommands,
                   cleanupPc, nTrig>>
    /\ UNCHANGED NotExec

\* An access to a field of the Reflex of a rule: the field, whether it is
\* a write, and whether reflex.mut is held for it.
Acc(field, write, locked) ==
    [field |-> field, write |-> write, locked |-> locked]

\* The accesses to the fields of its rule that the next step of a goroutine
\* in runEach, runCommand or terminate makes. Only "killed" is accessed
\* between reflex.mut.Lock() and reflex.mut.Unlock().
ThreadAccesses(pc) ==
    CASE pc = "svc_check" -> {Acc("done", FALSE, FALSE)}
      [] pc = "rc_new" -> {Acc("cmd", TRUE, FALSE)}
      [] pc = "rc_start" -> {Acc("tty", TRUE, FALSE)}
      [] pc = "rc_done" -> {Acc("done", TRUE, FALSE)}
      [] pc = "w_enter" -> {Acc("done", FALSE, FALSE)}
      [] pc = "w_clear" -> {Acc("done", TRUE, FALSE)}
      [] pc = "t_kill" -> {Acc("killed", TRUE, TRUE)}
      [] pc = "t_write" -> {Acc("tty", FALSE, FALSE), Acc("done", FALSE, FALSE)}
      [] pc = "t_enter" -> {Acc("done", FALSE, FALSE)}
      [] pc = "t_signal" -> {Acc("cmd", FALSE, FALSE)}
      [] OTHER -> {}

\* The goroutines that work on a rule: those of thr, the goroutine that
\* waits for each child, and cleanup's loop over reflexes.
TasksOf(r) ==
    {<<"thr", t, 0>> : t \in Threads}
        \cup {<<"waiter", "none", c>> : c \in DOMAIN cmds[r]}
        \cup {<<"scan", "none", 0>>}

\* The accesses the next step of a goroutine makes to the fields of the
\* rule: the waiting goroutine reads killed under reflex.mut when cmd.Wait
\* has returned, and cleanup reads reflex.done under cleanupMut only.
AccessesOf(r, task) ==
    CASE task[1] = "thr" -> ThreadAccesses(thr[r][task[2]].pc)
      [] task[1] = "waiter" ->
            IF /\ cmds[r][task[3]].wpc = "wait"
               /\ cmds[r][task[3]].state = "exited"
            THEN {Acc("killed", FALSE, TRUE)} ELSE {}
      [] OTHER ->
            IF /\ cleanupPc = "scan"
               /\ thr[r]["clean"].pc = "off"
               /\ \A q \in ExecRules : q < r => thr[q]["clean"].pc # "off"
            THEN {Acc("done", FALSE, FALSE)} ELSE {}

NextExec ==
    \/ \E r \in ExecRules : EachRecv(r)
    \/ \E r \in ExecRules : EachSvcCheck(r)
    \/ \E r \in ExecRules, t \in Threads : RcNew(r, t)
    \/ \E r \in ExecRules, t \in Threads : RcLock(r, t)
    \/ \E r \in ExecRules, t \in Threads : RcStart(r, t)
    \/ \E r \in ExecRules, t \in Threads : RcDone(r, t)
    \/ \E r \in ExecRules : \E c \in DOMAIN cmds[r] : ChildExit(r, c)
    \/ \E r \in ExecRules : \E c \in DOMAIN cmds[r] : WaiterWait(r, c)
    \/ \E r \in ExecRules, t \in Threads :
            \E c \in DOMAIN cmds[r] : WaiterSend(r, c, t)
    \/ \E r \in ExecRules : \E c \in DOMAIN cmds[r] : WaiterUnlock(r, c)
    \/ \E r \in ExecRules : EachWaitEnter(r)
    \/ \E r \in ExecRules : EachClear(r)
    \/ \E r \in ExecRules, t \in Threads : TermKill(r, t)
    \/ \E r \in ExecRules, t \in Threads : TermWrite(r, t)
    \/ \E r \in ExecRules, t \in Threads : TermEnter(r, t)
    \/ \E r \in ExecRules, t \in Threads : TermTimeout(r, t)
    \/ \E r \in ExecRules, t \in Threads : TermSignal(r, t)
    \/ SigReceived
    \/ \E r \in ExecRules : CleanupScan(r)
    \/ CleanupExit
    \/ MainFatal

SpecExec == InitExec /\ [][NextExec]_vars

\* The steps of the goroutines of the program, as opposed to those of its
\* environment (a name arriving, a child exiting by itself, a signal).
ProgramStep ==
    \/ \E r \in ExecRules : EachSvcCheck(r) \/ EachWaitEnter(r) \/ EachClear(r)
    \/ \E r \in ExecRules, t \in Threads :
            RcNew(r, t) \/ RcLock(r, t) \/ RcStart(r, t) \/ RcDone(r, t)
    \/ \E r \in ExecRules, t \in Threads :
            \/ TermKill(r, t) \/ TermWrite(r, t) \/ TermEnter(r, t)
            \/ TermTimeout(r, t) \/ TermSignal(r, t)
    \/ \E r \in ExecRules : \E c \in DOMAIN cmds[r] :
            \/ WaiterWait(r, c) \/ WaiterUnlock(r, c)
            \/ \E t \in Threads : WaiterSend(r, c, t)
    \/ \E r \in ExecRules : CleanupScan(r)
    \/ CleanupExit

\* SpecExec with the scheduling the Go runtime gives: a goroutine that can
\* take a step, and a timer that is armed, are not left waiting forever.
FairExec == SpecExec /\ WF_vars(ProgramStep)

\* ------------------------------------------------------- SpecSeq, SpecOut

\* A variant of "%" that gives the remainder of the floored division.
GoRemFloor(a, b) == a % b

\* The remainder of Go's integer division, which truncates toward zero.
GoRem(a, b) == IF a >= 0 THEN a % b ELSE -((-a) % b)

colorRed == 31

colorStart == 32

numColors == 5

\* The reflexID of the messages that belong to no rule.
InfoId == -1

\* OutMsg{reflexID, msg}: the text is kept as the identity of the line (the
\* run and the number of the line in it) and whether it ends in "\n".
OutMsg(id, run, n, nl) == [reflexID |-> id, run |-> run, n |-> n, nl |-> nl]

\* printMsg: the writes it makes to the writer, in order. The tag is
\* "[info]" for a negative reflexID and "[%02d]" else; fancy decoration
\* wraps the line in the escape sequences of a colour, which is
\* "(msg.reflexID % numColors) + colorStart" unless the global reflexID,
\* the number of rules made, is negative.
PrintMsg(msg) ==
    LET tag == IF msg.reflexID < 0 THEN "[info]" ELSE "[id]"
        color == IF reflexID < 0 THEN colorRed
                 ELSE GoRem(msg.reflexID, numColors) + colorStart
        head == IF decoration = "fancy"
                THEN <<[kind |-> "tag", msg |-> msg, tag |-> tag,
                        color |-> color]>>
                ELSE IF decoration = "plain"
                THEN <<[kind |-> "tag", msg |-> msg, tag |-> tag,
                        color |-> 0]>>
                ELSE <<>>
        text == <<[kind |-> "text", msg |-> msg]>>
        reset == IF decoration = "fancy"
                 THEN <<[kind |-> "reset", msg |-> msg]>> ELSE <<>>
        nl == IF msg.nl THEN <<>> ELSE <<[kind |-> "nl", msg |-> msg]>>
    IN  head \o text \o reset \o nl

\* The child of a run writes a line of output to its terminal.
ChildWrite(r, c) ==
    /\ Running
    /\ cmds[r][c].state = "alive"
    /\ nOut[r][c] < MaxLines
    /\ nOut' = [nOut EXCEPT ![r][c] = @ + 1]
    /\ pty' = [pty EXCEPT ![r][c] = Append(@, nOut[r][c] + 1)]
    /\ UNCHANGED <<decoration, stdout, putLog, printPc, outWriter, seqOrder>>
    /\ UNCHANGED <<flagSequential, reflexes, cmds, thr, seqCommands,
                   cleanupPc, halt, nTrig>>
    /\ UNCHANGED <<blVars, batchVars, watchVars, matchVars, restVars>>

\* runCommand, the scanning goroutine: "for scanner.Scan() { stdout <-
\* OutMsg{reflex.id, scanner.Text()} }". It was started after pty.Start and
\* reads what the child wrote, also after the child has exited.
Scan(r, c) ==
    /\ Running
    /\ cmds[r][c].state \in {"alive", "exited", "reaped"}
    /\ pty[r][c] # <<>>
    /\ Len(stdout) < StdoutCap
    /\ LET msg == OutMsg(r, c, Head(pty[r][c]), FALSE) IN
        /\ stdout' = Append(stdout, msg)
        /\ putLog' = Append(putLog, msg)
    /\ pty' = [pty EXCEPT ![r][c] = Tail(@)]
    /\ UNCHANGED <<decoration, nOut, printPc, outWriter, seqOrder>>
    /\ UNCHANGED <<flagSequential, reflexes, cmds, thr, seqCommands,
                   cleanupPc, halt, nTrig>>
    /\ UNCHANGED <<blVars, batchVars, watchVars, matchVars, restVars>>

\* printOutput: "for msg := range out" receives the next message, and
\* printMsg makes its first write.
PrintRecv ==
    /\ Running
    /\ ~printPc.busy
    /\ stdout # <<>>
    /\ stdout' = Tail(stdout)
    /\ LET w == PrintMsg(Head(stdout)) IN
        /\ outWriter' = Append(outWriter, Head(w))
        /\ printPc' = IF Tail(w) = <<>> THEN PrintIdle
                      ELSE [busy |-> TRUE, rest |-> Tail(w)]
    /\ UNCHANGED <<decoration, pty, nOut, putLog, seqOrder>>
    /\ UNCHANGED <<flagSequential, reflexes, cmds, thr, seqCommands,
                   cleanupPc, halt, nTrig>>
    /\ UNCHANGED <<blVars, batchVars, watchVars, matchVars, restVars>>

\* printMsg: the next write of the message in hand.
PrintWrite ==
    /\ Running
    /\ printPc.busy
    /\ outWriter' = Append(outWriter, Head(printPc.rest))
    /\ printPc' = IF Tail(printPc.rest) = <<>> THEN PrintIdle
                  ELSE [busy |-> TRUE, rest |-> Tail(printPc.rest)]
    /\ UNCHANGED <<decoration, pty, nOut, stdout, putLog, seqOrder>>
    /\ UNCHANGED <<flagSequential, reflexes, cmds, thr, seqCommands,
                   cleanupPc, halt, nTrig>>
    /\ UNCHANGED <<blVars, batchVars, watchVars, matchVars, restVars>>

\* main with --sequential and two rules, the first of which may be a
\* service: runEach of each rule runs the command on the names it receives,
\* the children write lines, and printOutput writes them to os.Stdout.
InitSeq ==
    /\ WatchUnused
    /\ MatchUnused
    /\ RestUnused
    /\ flagSequential = TRUE
    /\ \E service \in BOOLEAN :
        /\ reflexes = [r \in RuleIds |-> NewReflex(r = 1 /\ service)]
        /\ thr = [r \in RuleIds |-> [t \in Threads |->
                    IF t = "each" THEN NewThread("recv")
                    ELSE IF t = "main" /\ r = 1 /\ service
                    THEN NewThread("rc_new")
                    ELSE NewThread("off")]]
    /\ cmds = [r \in RuleIds |-> <<>>]
    /\ seqCommands = <<>>
    /\ cleanupPc = "idle"
    /\ halt = "run"
    /\ nTrig = [r \in RuleIds |-> 0]
    /\ OutUnused
    /\ BacklogUnused
    /\ BatchUnused

\* runEach receives a name, while the runs made in all stay in the bound.
SeqRecv(r) ==
    /\ nTrig[1] + nTrig[2] + (IF reflexes[1].startService THEN 1 ELSE 0)
            < MaxSeqRuns
    /\ thr[r]["each"].pc = "recv"
    /\ nTrig' = [nTrig EXCEPT ![r] = @ + 1]
    /\ thr' = [thr EXCEPT ![r]["each"].pc =
                    IF reflexes[r].startService THEN "svc_check" ELSE "rc_new"]
    /\ UNCHANGED <<flagSequential, reflexes, cmds, seqCommands, cleanupPc,
                   halt>>
    /\ UNCHANGED NotExec

NextSeq ==
    \/ \E r \in RuleIds : SeqRecv(r)
    \/ \E r \in RuleIds : EachSvcCheck(r)
    \/ \E r \in RuleIds, t \in {"main", "each"} : RcNew(r, t)
    \/ \E r \in RuleIds, t \in {"main", "each"} : RcLock(r, t)
    \/ \E r \in RuleIds, t \in {"main", "each"} : RcStart(r, t)
    \/ \E r \in RuleIds, t \in {"main", "each"} : RcDone(r, t)
    \/ \E r \in RuleIds : \E c \in DOMAIN cmds[r] : ChildWrite(r, c)
    \/ \E r \in RuleIds : \E c \in DOMAIN cmds[r] : ChildExit(r, c)
    \/ \E r \in RuleIds : \E c \in DOMAIN cmds[r] : Scan(r, c)
    \/ \E r \in RuleIds : \E c \in DOMAIN cmds[r] : WaiterWait(r, c)
    \/ \E r \in RuleIds : \E c \in DOMAIN cmds[r] : WaiterSend(r, c, "each")
    \/ \E r \in RuleIds : \E c \in DOMAIN cmds[r] : WaiterUnlock(r, c)
    \/ \E r \in RuleIds : EachWaitEnter(r)
    \/ \E r \in RuleIds : EachClear(r)
    \/ \E r \in RuleIds : TermKill(r, "each")
    \/ \E r \in RuleIds : TermWrite(r, "each")
    \/ \E r \in RuleIds : TermEnter(r, "each")
    \/ \E r \in RuleIds : TermTimeout(r, "each")
    \/ \E r \in RuleIds : TermSignal(r, "each")
    \/ PrintRecv
    \/ PrintWrite

SpecSeq == InitSeq /\ [][NextSeq]_vars

\* infoPrintln, infoPrintf, and the send of the scanning goroutine: a
\* message of a rule or of no rule is sent on stdout, which blocks while
\* the channel is full. Only a text made by infoPrintf can end in "\n".
InfoPrint(id, nl) ==
    /\ Running
    /\ Len(putLog) < MaxMsgs
    /\ Len(stdout) < StdoutCap
    /\ LET msg == OutMsg(id, 0, Len(putLog) + 1, nl) IN
        /\ stdout' = Append(stdout, msg)
        /\ putLog' = Append(putLog, msg)
    /\ UNCHANGED <<decoration, pty, nOut, printPc, outWriter, seqOrder>>
    /\ UNCHANGED <<flagSequential, reflexes, cmds, thr, seqCommands,
                   cleanupPc, halt, nTrig>>
    /\ UNCHANGED <<blVars, batchVars, watchVars, matchVars, restVars>>

\* main with no child running: messages are sent on stdout, printOutput
\* writes them, and a signal may start cleanup.
InitOut ==
    /\ WatchUnused
    /\ MatchUnused
    /\ RestUnused
    /\ decoration \in {"none", "plain", "fancy"}
    /\ pty = [r \in RuleIds |-> [c \in Runs |-> <<>>]]
    /\ nOut = [r \in RuleIds |-> [c \in Runs |-> 0]]
    /\ stdout = <<>>
    /\ putLog = <<>>
    /\ printPc = PrintIdle
    /\ outWriter = <<>>
    /\ seqOrder = <<>>
    /\ flagSequential = FALSE
    /\ reflexes = [r \in RuleIds |-> NewReflex(FALSE)]
    /\ cmds = [r \in RuleIds |-> <<>>]
    /\ thr = [r \in RuleIds |-> [t \in Threads |-> NewThread("off")]]
    /\ seqCommands = <<>>
    /\ cleanupPc = "idle"
    /\ halt = "run"
    /\ nTrig = [r \in RuleIds |-> 0]
    /\ BacklogUnused
    /\ BatchUnused

NextOut ==
    \/ \E id \in RuleIds \cup {InfoId}, nl \in BOOLEAN : InfoPrint(id, nl)
    \/ PrintRecv
    \/ PrintWrite
    \/ SigReceived
    \/ \E r \in ExecRules : CleanupScan(r)
    \/ CleanupExit

SpecOut == InitOut /\ [][NextOut]_vars

\* --------------------------------------------------------------- SpecColor

\* main has made some rules, and a message of a rule or of no rule,
\* followed by a message of no rule, is on stdout for printOutput.
InitColor ==
    /\ WatchUnused
    /\ MatchUnused
    /\ nrArg = NoConfig
    /\ nrRet = [out |-> "none", reflex |-> NoReflex]
    /\ nNew = 0
    /\ reflexID \in 0..MaxNew
    /\ decoration \in {"none", "plain", "fancy"}
    /\ pty = [r \in RuleIds |-> [c \in Runs |-> <<>>]]
    /\ nOut = [r \in RuleIds |-> [c \in Runs |-> 0]]
    /\ \E id \in InfoId..MaxId, nl \in BOOLEAN :
        stdout = <<OutMsg(id, 0, 1, nl), OutMsg(InfoId, 0, 2, FALSE)>>
    /\ putLog = stdout
    /\ printPc = PrintIdle
    /\ outWriter = <<>>
    /\ seqOrder = <<>>
    /\ flagSequential = FALSE
    /\ reflexes = [r \in RuleIds |-> NewReflex(FALSE)]
    /\ cmds = [r \in RuleIds |-> <<>>]
    /\ thr = [r \in RuleIds |-> [t \in Threads |-> NewThread("off")]]
    /\ seqCommands = <<>>
    /\ cleanupPc = "idle"
    /\ halt = "run"
    /\ nTrig = [r \in RuleIds |-> 0]
    /\ BacklogUnused
    /\ BatchUnused

NextColor == PrintRecv \/ PrintWrite

SpecColor == InitColor /\ [][NextColor]_vars

\* --------------------------------------------------------------- SpecWatch

\* Strings are sequences of characters.
HasPrefix(s, prefix) ==
    Len(prefix) <= Len(s) /\ SubSeq(s, 1, Len(prefix)) = prefix

HasSuffix(s, suffix) ==
    /\ Len(suffix) <= Len(s)
    /\ SubSeq(s, Len(s) - Len(suffix) + 1, Len(s)) = suffix

TrimPrefix(s, prefix) ==
    IF HasPrefix(s, prefix) THEN SubSeq(s, Len(prefix) + 1, Len(s)) ELSE s

\* normalize: the leading "./" is stripped, and a directory gets a "/" at
\* its end if it has none.
Normalize(path, dir) ==
    LET t == TrimPrefix(path, <<".", "/">>) IN
    IF dir /\ ~HasSuffix(t, <<"/">>) THEN t \o <<"/">> ELSE t

\* The tree the watcher runs in: the root ".", the directories "a" and
\* "a/b", and the files "f" and "a/g".
Root == <<".">>

DirA == <<"a">>

DirAB == <<"a", "/", "b">>

FileF == <<"f">>

FileAG == <<"a", "/", "g">>

WDirs == {Root, DirA, DirAB}

WNodes == {DirA, DirAB, FileF, FileAG}

\* The file a path names: the path without "./" at its start and "/" at
\* its end.
Clean(path) ==
    LET t == TrimPrefix(path, <<".", "/">>)
        u == IF Len(t) > 1 /\ HasSuffix(t, <<"/">>)
             THEN SubSeq(t, 1, Len(t) - 1) ELSE t
    IN  IF u = <<>> THEN Root ELSE u

\* The directory a file is in.
ParentOf(n) ==
    LET slashes == {i \in 1..Len(n) : n[i] = "/"} IN
    IF slashes = {} THEN Root
    ELSE SubSeq(n, 1, (CHOOSE i \in slashes : \A j \in slashes : j <= i) - 1)

\* The operations of an fsnotify event.
Ops == {"Create", "Write", "Remove", "Rename", "Chmod"}

\* "e.Op&chmodMask == 0": the event has no operation but Chmod.
ChmodOnly(op) == op \ {"Chmod"} = {}

\* os.Stat: what it can return for a path in a file system.
Stat(path, fs) ==
    LET n == Clean(path) IN
    IF n = Root \/ n \in fs
    THEN {[err |-> "nil", dir |-> n \in WDirs],
          [err |-> "other", dir |-> FALSE]}
    ELSE {[err |-> "notexist", dir |-> FALSE]}

\* The prefixes a rule's matcher can exclude: "a/" and "a/b/".
ExclPrefixes == {Normalize(DirA, TRUE), Normalize(DirAB, TRUE)}

\* r.matcher.ExcludePrefix(path) of the rule's matcher.
ExcludePrefix(r, path) == path \in watchRules[r].excl

\* r.matcher.Match(name): an inverted pattern anchored at each prefix the
\* matcher excludes.
Match(r, name) == \A e \in watchRules[r].excl : ~HasPrefix(name, e)

\* walker: "ignore" stays true when every rule excludes the prefix.
Ignore(path) == \A r \in RuleIds : ExcludePrefix(r, path)

\* A variant of the walk that does not skip what is below a directory it
\* ignores.
RECURSIVE WalkDirNoSkip(_, _)
WalkDirNoSkip(path, fs) ==
    LET n == Normalize(path, TRUE)
        below == UNION {WalkDirNoSkip(c, fs) :
                    c \in {d \in WDirs \cap fs : ParentOf(d) = Clean(path)}}
    IN  IF Ignore(n) THEN below ELSE {n} \cup below

\* filepath.Walk with walker on a directory: the directories added to the
\* watcher. walker returns SkipDir for a directory every rule excludes,
\* else it adds the normalized path and the walk goes on below it.
RECURSIVE WalkDir(_, _)
WalkDir(path, fs) ==
    LET n == Normalize(path, TRUE)
        below == UNION {WalkDir(c, fs) :
                    c \in {d \in WDirs \cap fs : ParentOf(d) = Clean(path)}}
    IN  IF Ignore(n) THEN {} ELSE {n} \cup below

\* filepath.Walk(root, walker(watcher, reflexes)): walker returns nil for
\* a root that cannot be read or is no directory.
Walk(root, fs) ==
    LET n == Clean(root) IN
    IF (n = Root \/ n \in fs) /\ n \in WDirs THEN WalkDir(root, fs) ELSE {}

\* main: the rules are made, and watch is started on ".".
InitWatch ==
    /\ watchRules \in [RuleIds ->
            [only : {"none", "files", "dirs"}, excl : SUBSET ExclPrefixes]]
    /\ watchRules[2].only = "none"
    /\ watchRules[2].excl \in {{}, ExclPrefixes}
    /\ fsExists \in {{}, {DirA, DirAB}}
    /\ watched = {}
    /\ wevents = <<>>
    /\ names = <<>>
    /\ fidx = [r \in RuleIds |-> 0]
    /\ triggered = [r \in RuleIds |-> <<>>]
    /\ flog = [r \in RuleIds |-> <<>>]
    /\ watchPc = "start"
    /\ lastWalk = [root |-> <<>>, added |-> {}]
    /\ nFs = 0
    /\ MatchUnused
    /\ RestUnused
    /\ BacklogUnused
    /\ BatchUnused
    /\ ExecUnused

NotWatch == <<blVars, batchVars, execVars, matchVars, restVars>>

\* watch: the walk of the root, before the loop over the events.
WatchStart ==
    /\ watchPc = "start"
    /\ watchPc' = "loop"
    /\ watched' = watched \cup Walk(Root, fsExists)
    /\ lastWalk' = [root |-> Root, added |-> Walk(Root, fsExists)]
    /\ UNCHANGED <<watchRules, fsExists, wevents, names, fidx, triggered, flog,
                   nFs>>
    /\ UNCHANGED NotWatch

\* The native watcher: an event for a file is queued when the directory
\* the file is in has been added to the watcher.
Notify(n, op) ==
    IF Normalize(ParentOf(n), TRUE) \in watched
    THEN Append(wevents, [name |-> n, op |-> op])
    ELSE wevents

\* The file system: a file or directory is created, written, has its
\* attributes changed, or is removed.
FsChange(n, op) ==
    /\ watchPc # "panic"
    /\ nFs < MaxFsOps
    /\ nFs' = nFs + 1
    /\ \/ /\ op = {"Create"}
          /\ n \notin fsExists
          /\ ParentOf(n) = Root \/ ParentOf(n) \in fsExists
          /\ fsExists' = fsExists \cup {n}
       \/ /\ op \in {{"Write"}, {"Write", "Chmod"}}
          /\ n \in fsExists
          /\ n \notin WDirs
          /\ UNCHANGED fsExists
       \/ /\ op = {"Chmod"}
          /\ n \in fsExists
          /\ UNCHANGED fsExists
       \/ /\ op = {"Remove"}
          /\ n \in fsExists
          /\ \A c \in fsExists : ParentOf(c) # n
          /\ fsExists' = fsExists \ {n}
    /\ wevents' = Notify(n, op)
    /\ UNCHANGED <<watchRules, watched, names, fidx, triggered, flog, watchPc,
                   lastWalk>>
    /\ UNCHANGED NotWatch

\* A variant of broadcast that takes a name from names at any time.
BroadcastReadyBuffered == TRUE

\* broadcast: a name is taken from names when the name before it has been
\* sent to every rule.
BroadcastReady == \A r \in RuleIds : fidx[r] = Len(names)

\* broadcast: a name is sent to the rules one after the other.
BroadcastTurn(r) ==
    \A q \in RuleIds :
        /\ q < r => fidx[q] > fidx[r]
        /\ q > r => fidx[q] = fidx[r]

\* watch, "case e := <-watcher.Events": the path is stat'ed; a path that
\* does not exist is sent on names as it is; else the path is normalized,
\* an event that is only Chmod is dropped, the path is sent on names, and a
\* directory that was created is walked. A stat error of another kind
\* leaves stat nil, and "stat.IsDir()" panics.
WatchEvent ==
    /\ watchPc = "loop"
    /\ wevents # <<>>
    /\ wevents' = Tail(wevents)
    /\ LET e == Head(wevents) IN
       \E st \in Stat(e.name, fsExists) :
        IF st.err = "notexist"
        THEN /\ BroadcastReady
             /\ names' = Append(names,
                    [path |-> e.name, op |-> e.op, stat |-> st.err])
             /\ UNCHANGED <<watched, lastWalk, watchPc>>
        ELSE IF st.err = "other"
        THEN /\ watchPc' = "panic"
             /\ UNCHANGED <<names, watched, lastWalk>>
        ELSE LET path == Normalize(e.name, st.dir) IN
             IF ChmodOnly(e.op)
             THEN UNCHANGED <<names, watched, lastWalk, watchPc>>
             ELSE /\ BroadcastReady
                  /\ names' = Append(names,
                        [path |-> path, op |-> e.op, stat |-> st.err])
                  /\ IF "Create" \in e.op /\ st.dir
                     THEN /\ watched' = watched \cup Walk(path, fsExists)
                          /\ lastWalk' = [root |-> path,
                                          added |-> Walk(path, fsExists)]
                     ELSE UNCHANGED <<watched, lastWalk>>
                  /\ UNCHANGED watchPc
    /\ UNCHANGED <<watchRules, fsExists, fidx, triggered, flog, nFs>>
    /\ UNCHANGED NotWatch

\* filterMatching: os.Stat is called for a name that matched, when
\* onlyFiles or onlyDirs is set.
FilterStats(r, name) == Match(r, name) /\ watchRules[r].only # "none"

\* No stat was made.
NoStat == [err |-> "none", dir |-> FALSE]

\* A variant of the filter that passes each name that matched.
FilterPassesNoStat(r, name, st) == Match(r, name)

\* filterMatching: the name gets to "out <- name" past every continue.
FilterPasses(r, name, st) ==
    /\ Match(r, name)
    /\ watchRules[r].only # "none" =>
        /\ st.err = "nil"
        /\ ~(watchRules[r].only = "files" /\ st.dir)
        /\ ~(watchRules[r].only = "dirs" /\ ~st.dir)

\* filterMatching, the loop body on the next name broadcast to the rule:
\* the name is dropped if the matcher rejects it, or if onlyFiles or
\* onlyDirs is set and the stat fails or gives the other kind; else it is
\* sent to the batcher of the rule, which has the command run.
FilterMatching(r) ==
    /\ watchPc # "panic"
    /\ fidx[r] < Len(names)
    /\ BroadcastTurn(r)
    /\ fidx' = [fidx EXCEPT ![r] = @ + 1]
    /\ LET name == names[fidx[r] + 1].path IN
       \E st \in Stat(name, fsExists) :
        /\ triggered' =
                IF FilterPasses(r, name, st)
                THEN [triggered EXCEPT ![r] = Append(@, fidx[r] + 1)]
                ELSE triggered
        /\ flog' = [flog EXCEPT ![r] = Append(@,
                [stat |-> IF FilterStats(r, name) THEN st ELSE NoStat,
                 out |-> IF FilterPasses(r, name, st) THEN name ELSE <<>>])]
    /\ UNCHANGED <<watchRules, fsExists, watched, wevents, names, watchPc,
                   lastWalk, nFs>>
    /\ UNCHANGED NotWatch

NextWatch ==
    \/ WatchStart
    \/ \E n \in WNodes, op \in SUBSET Ops : FsChange(n, op)
    \/ WatchEvent
    \/ \E r \in RuleIds : FilterMatching(r)

SpecWatch == InitWatch /\ [][NextWatch]_vars

\* --------------------------------------------------------------- SpecMatch

\* The names are made of a word character and a character that is none.
Chars == {"o", "/"}

RECURSIVE StrsOfLen(_)
StrsOfLen(n) ==
    IF n = 0 THEN {<<>>}
    ELSE {Append(t, c) : t \in StrsOfLen(n - 1), c \in Chars}

Strs == UNION {StrsOfLen(n) : n \in 0..MaxNameLen}

\* syntax.Regexp: the nodes of a parsed regular expression.
Lit(c) == [op |-> "Literal", ch |-> c, sub |-> <<>>]

Node(op, sub) == [op |-> op, ch |-> "", sub |-> sub]

\* The patterns: the text given on the command line and what
\* syntax.Parse(text, syntax.Perl) makes of it. The only repeat is x{0}.
Patterns ==
    { [src |-> "", re |-> Node("EmptyMatch", <<>>)],
      [src |-> "o", re |-> Lit("o")],
      [src |-> "/o*",
       re |-> Node("Concat", <<Lit("/"), Node("Star", <<Lit("o")>>)>>)],
      [src |-> "o$",
       re |-> Node("Concat", <<Lit("o"), Node("EndText", <<>>)>>)],
      [src |-> "(?m)o$",
       re |-> Node("Concat", <<Lit("o"), Node("EndLine", <<>>)>>)],
      [src |-> "o\\b",
       re |-> Node("Concat", <<Lit("o"), Node("WordBoundary", <<>>)>>)],
      [src |-> "/\\B",
       re |-> Node("Concat", <<Lit("/"), Node("NoWordBoundary", <<>>)>>)],
      [src |-> "(o\\b)|(/$)",
       re |-> Node("Alternate",
            <<Node("Capture",
                <<Node("Concat", <<Lit("o"), Node("WordBoundary", <<>>)>>)>>),
              Node("Capture",
                <<Node("Concat", <<Lit("/"), Node("EndText", <<>>)>>)>>)>>)],
      [src |-> "(o$){0}",
       re |-> Node("Repeat",
            <<Node("Capture",
                <<Node("Concat", <<Lit("o"), Node("EndText", <<>>)>>)>>)>>)] }

\* The globs, and the inverse globs. ParseMatchers takes a glob as it is
\* given, "[" too, which is no pattern.
Globs == {<<"o", "*">>, <<"[">>}

InverseGlobs == {<<"*">>, <<"[">>}

\* A word character is at place k of s.
WordAt(s, k) == k >= 1 /\ k <= Len(s) /\ s[k] = "o"

\* The place after the first i characters of s is a word boundary.
Boundary(s, i) == WordAt(s, i) # WordAt(s, i + 1)

\* The expression matches the characters i+1 .. j of s.
RECURSIVE Matches(_, _, _, _)
Matches(re, s, i, j) ==
    CASE re.op = "Literal" -> j = i + 1 /\ s[j] = re.ch
      [] re.op = "EmptyMatch" -> i = j
      [] re.op = "EndText" -> i = j /\ i = Len(s)
      [] re.op = "EndLine" -> i = j /\ (i = Len(s) \/ s[i + 1] = "\n")
      [] re.op = "WordBoundary" -> i = j /\ Boundary(s, i)
      [] re.op = "NoWordBoundary" -> i = j /\ ~Boundary(s, i)
      [] re.op = "Capture" -> Matches(re.sub[1], s, i, j)
      [] re.op = "Repeat" -> i = j
      [] re.op = "Concat" ->
            \E k \in i..j :
                Matches(re.sub[1], s, i, k) /\ Matches(re.sub[2], s, k, j)
      [] re.op = "Alternate" ->
            \E n \in 1..Len(re.sub) : Matches(re.sub[n], s, i, j)
      [] re.op = "Star" ->
            \/ i = j
            \/ \E k \in (i + 1)..j :
                Matches(re.sub[1], s, i, k) /\ Matches(re, s, k, j)

\* regexp.MatchString: the expression matches some part of s.
MatchString(re, s) ==
    \E i \in 0..Len(s) : \E j \in i..Len(s) : Matches(re, s, i, j)

\* syntax.Regexp.Simplify: x{0} becomes the empty match, without a look
\* at x.
RECURSIVE Simplify(_)
Simplify(re) ==
    IF re.op = "Repeat" THEN Node("EmptyMatch", <<>>)
    ELSE [re EXCEPT !.sub = [k \in 1..Len(re.sub) |-> Simplify(re.sub[k])]]

\* The regex has a node with one of the operations.
RECURSIVE HasOp(_, _)
HasOp(re, ops) ==
    \/ re.op \in ops
    \/ \E k \in 1..Len(re.sub) : HasOp(re.sub[k], ops)

\* A variant of the operations that leaves the word boundary out.
EndOpsNoWordBoundary == {"EndLine", "EndText"}

\* The operations ExcludePrefix looks for in the simplified regex.
EndOps == {"EndLine", "EndText", "WordBoundary"}

\* filepath.Match: "*" matches any sequence of characters other than "/".
RECURSIVE GlobMatch(_, _)
GlobMatch(g, s) ==
    IF g = <<>> THEN s = <<>>
    ELSE IF Head(g) = "*"
    THEN \/ GlobMatch(Tail(g), s)
         \/ s # <<>> /\ Head(s) # "/" /\ GlobMatch(g, Tail(s))
    ELSE s # <<>> /\ Head(s) = Head(g) /\ GlobMatch(Tail(g), Tail(s))

\* filepath.Match returns ErrBadPattern for a pattern with a "[" that is
\* not closed, whatever the name is.
BadPattern(g) ==
    \E i \in 1..Len(g) :
        g[i] = "[" /\ \A j \in (i + 1)..Len(g) : g[j] # "]"

\* filepath.Match(glob, name): matches, err.
FilepathMatch(g, s) ==
    IF BadPattern(g) THEN [matches |-> FALSE, err |-> TRUE]
    ELSE [matches |-> GlobMatch(g, s), err |-> FALSE]

\* globMatcher.Match: false on an error, else "matches != m.inverse".
GlobMatcherMatch(m, name) ==
    LET r == FilepathMatch(m.pat, name) IN
    IF r.err THEN FALSE ELSE r.matches # m.inverse

\* newRegexMatcher, and the globMatcher and matchAll values.
NewRegexMatcher(pat, inverse) ==
    [kind |-> "regex", pat |-> pat, inverse |-> inverse,
     canExcludePrefix |-> FALSE, excludeChecked |-> FALSE]

NewGlobMatcher(g, inverse) ==
    [kind |-> "glob", pat |-> g, inverse |-> inverse,
     canExcludePrefix |-> FALSE, excludeChecked |-> FALSE]

MatchAll ==
    [kind |-> "all", pat |-> <<>>, inverse |-> FALSE,
     canExcludePrefix |-> FALSE, excludeChecked |-> FALSE]

\* ParseMatchers: matchAll when there is no regex and no glob, then the
\* regexes, the inverse regexes, the globs and the inverse globs.
ParseMatchers(regexes, inverseRegexes, globs, inverseGlobs) ==
    (IF regexes = <<>> /\ globs = <<>> THEN <<MatchAll>> ELSE <<>>)
    \o [k \in 1..Len(regexes) |-> NewRegexMatcher(regexes[k], FALSE)]
    \o [k \in 1..Len(inverseRegexes) |->
            NewRegexMatcher(inverseRegexes[k], TRUE)]
    \o [k \in 1..Len(globs) |-> NewGlobMatcher(globs[k], FALSE)]
    \o [k \in 1..Len(inverseGlobs) |-> NewGlobMatcher(inverseGlobs[k], TRUE)]

\* At most one of each kind of pattern is given.
AtMostOne(S) == {<<>>} \cup {<<x>> : x \in S}

\* Match of one matcher.
MatchOf(m, name) ==
    CASE m.kind = "all" -> TRUE
      [] m.kind = "glob" -> GlobMatcherMatch(m, name)
      [] m.kind = "regex" -> MatchString(m.pat.re, name) # m.inverse

\* multiMatcher.Match: the loop returns false at the first matcher that
\* does not match, and true after the last.
RECURSIVE MultiMatch(_, _)
MultiMatch(ms, name) ==
    IF ms = <<>> THEN TRUE
    ELSE IF ~MatchOf(Head(ms), name) THEN FALSE
    ELSE MultiMatch(Tail(ms), name)

\* regexMatcher.ExcludePrefix gets past its two early returns.
PastReturns(m, prefix) ==
    /\ m.kind = "regex"
    /\ m.inverse
    /\ MatchString(m.pat.re, prefix)
    /\ m.pat.src # ""

\* ExcludePrefix of one matcher: what it returns. A regexMatcher that was
\* checked before returns what it kept.
ExcludePrefixOf(m, prefix) ==
    IF ~PastReturns(m, prefix) THEN FALSE
    ELSE IF m.excludeChecked THEN m.canExcludePrefix
    ELSE ~HasOp(Simplify(m.pat.re), EndOps)

\* ExcludePrefix of one matcher: the matcher after the call.
AfterExcludePrefix(m, prefix) ==
    IF PastReturns(m, prefix) /\ ~m.excludeChecked
    THEN [m EXCEPT !.canExcludePrefix = ~HasOp(Simplify(m.pat.re), EndOps),
                   !.excludeChecked = TRUE]
    ELSE m

\* multiMatcher.ExcludePrefix: the matchers that are called, up to the
\* first that returns true.
Called(ms, prefix) ==
    {k \in 1..Len(ms) :
        \A n \in 1..(k - 1) : ~ExcludePrefixOf(ms[n], prefix)}

InitMatch ==
    /\ \E regexes \in AtMostOne(Patterns),
          inverseRegexes \in AtMostOne(Patterns),
          globs \in AtMostOne(Globs),
          inverseGlobs \in AtMostOne(InverseGlobs) :
        matchers = ParseMatchers(regexes, inverseRegexes, globs, inverseGlobs)
    /\ mret = [op |-> "none", arg |-> <<>>, res |-> FALSE, sub |-> <<>>]
    /\ nCalls = 0
    /\ WatchUnused
    /\ RestUnused
    /\ BacklogUnused
    /\ BatchUnused
    /\ ExecUnused

NotMatch == <<blVars, batchVars, execVars, watchVars, restVars>>

\* matcher.Match(name) on the rule's multiMatcher.
CallMatch(name) ==
    /\ nCalls < MaxCalls
    /\ nCalls' = nCalls + 1
    /\ mret' = [op |-> "Match", arg |-> name,
                res |-> MultiMatch(matchers, name),
                sub |-> [k \in 1..Len(matchers) |-> "none"]]
    /\ UNCHANGED matchers
    /\ UNCHANGED NotMatch

\* matcher.ExcludePrefix(prefix) on the rule's multiMatcher.
CallExcludePrefix(prefix) ==
    /\ nCalls < MaxCalls
    /\ nCalls' = nCalls + 1
    /\ mret' = [op |-> "ExcludePrefix", arg |-> prefix,
                res |-> \E k \in Called(matchers, prefix) :
                            ExcludePrefixOf(matchers[k], prefix),
                sub |-> [k \in 1..Len(matchers) |->
                            IF k \notin Called(matchers, prefix) THEN "none"
                            ELSE IF ExcludePrefixOf(matchers[k], prefix)
                            THEN "true" ELSE "false"]]
    /\ matchers' = [k \in 1..Len(matchers) |->
                        IF k \in Called(matchers, prefix)
                        THEN AfterExcludePrefix(matchers[k], prefix)
                        ELSE matchers[k]]
    /\ UNCHANGED NotMatch

NextMatch ==
    \/ \E name \in Strs : CallMatch(name)
    \/ \E prefix \in Strs : CallExcludePrefix(prefix)

SpecMatch == InitMatch /\ [][NextMatch]_vars

\* ----------------------------------------------------------------- SpecNew

\* The words of a command: "e", "{}", "a{}" and "%".
Words == {<<"e">>, <<"{", "}">>, <<"a", "{", "}">>, <<"%">>}

\* The substitution symbols: "", "{}" and "%".
SubSymbols == {<<>>, <<"{", "}">>, <<"%">>}

RECURSIVE CommandsOfLen(_)
CommandsOfLen(n) ==
    IF n = 0 THEN {<<>>}
    ELSE {Append(c, w) : c \in CommandsOfLen(n - 1), w \in Words}

Commands == UNION {CommandsOfLen(n) : n \in 0..MaxCmdLen}

\* The Configs: no regex, one that compiles and one that does not; no glob
\* or a glob.
Configs ==
    [regex : {"", "o", "("}, glob : {"", "*"}, subSymbol : SubSymbols,
     startService : BOOLEAN, onlyFiles : BOOLEAN, onlyDirs : BOOLEAN,
     command : Commands]

\* strings.Contains.
Contains(s, substr) ==
    \E i \in 0..(Len(s) - Len(substr)) :
        SubSeq(s, i + 1, i + Len(substr)) = substr

\* parseMatchers(rs, gs): whether it returns an error.
ParseMatchersErr(rs, gs) ==
    IF rs = "" /\ gs = "" THEN FALSE
    ELSE IF rs = "" THEN FALSE
    ELSE IF gs = "" THEN rs = "("
    ELSE TRUE

\* NewReflex: "substitution", true when a word of the command contains the
\* substitution symbol.
Substitution(command, subSymbol) ==
    \E k \in 1..Len(command) : Contains(command[k], subSymbol)

\* A variant of NewReflex that gives every rule a UnifiedBacklog.
MakeReflexUnified(c, id) ==
    [id |-> id, startService |-> c.startService,
     backlog |-> NewUnifiedBacklog,
     useRegex |-> c.glob = "",
     onlyFiles |-> c.onlyFiles, onlyDirs |-> c.onlyDirs,
     command |-> c.command, subSymbol |-> c.subSymbol]

\* What NewReflex makes of a Config that passed its checks.
MakeReflex(c, id) ==
    [id |-> id, startService |-> c.startService,
     backlog |-> IF Substitution(c.command, c.subSymbol)
                 THEN NewUniqueFilesBacklog ELSE NewUnifiedBacklog,
     useRegex |-> c.glob = "",
     onlyFiles |-> c.onlyFiles, onlyDirs |-> c.onlyDirs,
     command |-> c.command, subSymbol |-> c.subSymbol]

\* A variant of NewReflex without the check of onlyFiles and onlyDirs.
NewReflexNoOnlyCheck(c, id) ==
    IF ParseMatchersErr(c.regex, c.glob)
    THEN [out |-> "fatal", reflex |-> NoReflex]
    ELSE IF Len(c.command) = 0 THEN [out |-> "error", reflex |-> NoReflex]
    ELSE IF c.subSymbol = <<>> THEN [out |-> "error", reflex |-> NoReflex]
    ELSE IF Substitution(c.command, c.subSymbol) /\ c.startService
    THEN [out |-> "error", reflex |-> NoReflex]
    ELSE [out |-> "ok", reflex |-> MakeReflex(c, id)]

\* NewReflex(c, command): what it returns, in the order of its checks.
\* Fatalln ends the process when parseMatchers returns an error.
NewReflexResult(c, id) ==
    IF ParseMatchersErr(c.regex, c.glob)
    THEN [out |-> "fatal", reflex |-> NoReflex]
    ELSE IF Len(c.command) = 0 THEN [out |-> "error", reflex |-> NoReflex]
    ELSE IF c.subSymbol = <<>> THEN [out |-> "error", reflex |-> NoReflex]
    ELSE IF Substitution(c.command, c.subSymbol) /\ c.startService
    THEN [out |-> "error", reflex |-> NoReflex]
    ELSE IF c.onlyFiles /\ c.onlyDirs THEN [out |-> "error", reflex |-> NoReflex]
    ELSE [out |-> "ok", reflex |-> MakeReflex(c, id)]

\* main has read a Config, from the flags or from a line of the config file,
\* and no rule is made yet.
InitNew ==
    /\ nrArg \in Configs
    /\ nrRet = [out |-> "none", reflex |-> NoReflex]
    /\ reflexID = 0
    /\ nNew = 0
    /\ WatchUnused
    /\ MatchUnused
    /\ BacklogUnused
    /\ BatchUnused
    /\ ExecUnused

NotNew == <<blVars, batchVars, execVars, watchVars, matchVars>>

\* main: NewReflex is called for the Config, and again for a Config equal
\* to it (a config file that repeats a line); "reflexID++" when a rule is
\* made. No call follows one that ended the process.
CallNewReflex ==
    /\ nrRet.out # "fatal"
    /\ nNew < MaxNew
    /\ nNew' = nNew + 1
    /\ nrRet' = NewReflexResult(nrArg, reflexID)
    /\ reflexID' = IF NewReflexResult(nrArg, reflexID).out = "ok"
                   THEN reflexID + 1 ELSE reflexID
    /\ UNCHANGED nrArg
    /\ UNCHANGED NotNew

NextNew == CallNewReflex

SpecNew == InitNew /\ [][NextNew]_vars

\* ------------------------------------------------------ claims: the backlog

\* C1: a UnifiedBacklog that was empty and then received one or more Adds
\* holds the first path added: every later Add leaves it unchanged, Next
\* returns that first path, and one RemoveOne reports empty = true and leaves
\* the backlog as constructed.
C1_UnifiedCoalescing ==
    bl.kind = "unified" =>
        /\ blAdds # <<>> => Next(bl) = [panic |-> FALSE, val |-> blAdds[1]]
        /\ (ret.op = "Add" /\ Len(ret.adds) > 1) => bl = ret.before
        /\ (ret.op = "Next" /\ ret.adds # <<>>) =>
                ~ret.panic /\ ret.val = ret.adds[1]
        /\ (ret.op = "RemoveOne" /\ ret.adds # <<>>) =>
                ~ret.panic /\ ret.empty /\ bl = NewUnifiedBacklog

\* C1 witness: two different paths were added, Next returned the first, and
\* RemoveOne reported empty.
C1_Witness ==
    /\ bl.kind = "unified"
    /\ ret.op = "RemoveOne" /\ ret.empty
    /\ Len(ret.adds) >= 2 /\ ret.adds[1] # ret.adds[2]
    /\ ret.out = <<ret.adds[1]>>

\* C2: on a UniqueFilesBacklog, when all Adds come first and are followed by
\* rounds of Next then RemoveOne, the paths Next returns are pairwise
\* different, are among the paths added, start with the first path added, and
\* RemoveOne reports empty = true exactly in the round whose number is the
\* number of distinct paths added (so every distinct path came out once).
C2_UniqueDrain ==
    (bl.kind = "unique" /\ ret.op = "RemoveOne" /\ ~ret.panic /\ ret.clean) =>
        /\ NoDup(ret.out)
        /\ Range(ret.out) \subseteq Range(ret.adds)
        /\ ret.out[1] = ret.adds[1]
        /\ ret.empty <=> (Len(ret.out) = Cardinality(Range(ret.adds)))
        /\ ret.empty => Range(ret.out) = Range(ret.adds)

\* C2 witness: three Adds of two distinct paths were drained in two rounds.
C2_Witness ==
    /\ bl.kind = "unique"
    /\ ret.op = "RemoveOne" /\ ret.clean /\ ret.empty
    /\ Len(ret.adds) = 3 /\ Cardinality(Range(ret.adds)) = 2
    /\ Len(ret.out) = 2

\* C3: for both variants, Next and RemoveOne panic exactly when the backlog
\* holds no path (nothing was added since construction or since the RemoveOne
\* that reported empty), and a panicking call leaves the backlog as it was.
C3_EmptyFaults ==
    ret.op \in {"Next", "RemoveOne"} =>
        /\ ret.panic <=> (ret.adds = <<>>)
        /\ ret.panic => bl = ret.before

\* C3 witness: a call panicked on a backlog that had been filled and drained.
C3_Witness ==
    /\ ret.op \in {"Next", "RemoveOne"} /\ ret.panic
    /\ nOps >= 4
    /\ bl \in {NewUnifiedBacklog, NewUniqueFilesBacklog}

\* ------------------------------------------------------ claims: the batcher

\* C4: with a UnifiedBacklog (no substitution symbol in the command), all the
\* paths received before the executor accepts the pending path make one
\* hand-off: the cycle ends with that hand-off, so hand-offs and finished
\* cycles are equal in number, the path handed over is one of the burst, and
\* the executor runs its command once per hand-off.
C4_UnifiedOneRunPerBurst ==
    backlog.kind = "unified" =>
        /\ nHanded = nCycles
        /\ cycHanded = <<>>
        /\ nCycles > 0 =>
            /\ Len(lastCycle.handed) = 1
            /\ lastCycle.handed[1] \in Range(lastCycle.arr)
            /\ ~lastCycle.late
        /\ nRuns + (IF execPc = "busy" THEN 1 ELSE 0) = nCycles

\* C4 witness: a burst of three different paths ended in one hand-off and one
\* run of the command.
C4_Witness ==
    /\ backlog.kind = "unified"
    /\ nCycles = 1 /\ nRuns = 1 /\ nHanded = 1 /\ batchPc = "idle"
    /\ Len(lastCycle.arr) = 3
    /\ Cardinality(Range(lastCycle.arr)) = 3

\* C5: with a UniqueFilesBacklog (substitution symbol in the command), the
\* first path handed to the executor is the first path received, only paths
\* received are handed over, when the cycle ends every distinct path received
\* has been handed over, and, when all paths were received before the first
\* hand-off, no path is handed over twice.
C5_UniquePerFile ==
    backlog.kind = "unique" =>
        /\ cycHanded # <<>> => cycHanded[1] = cycArr[1]
        /\ (batchPc = "draining" /\ cycHanded = <<>>) => offer = cycArr[1]
        /\ Range(cycHanded) \subseteq Range(cycArr)
        /\ ~cycLate => NoDup(cycHanded)
        /\ nCycles > 0 =>
            /\ lastCycle.handed[1] = lastCycle.arr[1]
            /\ Range(lastCycle.handed) = Range(lastCycle.arr)
            /\ ~lastCycle.late => NoDup(lastCycle.handed)

\* C5 witness: four paths, three of them distinct, were received before the
\* first hand-off and handed over in three hand-offs.
C5_Witness ==
    /\ backlog.kind = "unique"
    /\ nCycles = 1 /\ batchPc = "idle"
    /\ ~lastCycle.late
    /\ Len(lastCycle.arr) = 4
    /\ Cardinality(Range(lastCycle.arr)) = 3
    /\ Len(lastCycle.handed) = 3

\* ----------------------------------------------------- claims: the executor

Alive(r) == {c \in DOMAIN cmds[r] : cmds[r][c].state = "alive"}

TermPcs == {"t_kill", "t_write", "t_wait", "t_signal", "t_enter"}

\* C6: for a rule that is not a service, at most one child is alive, and
\* whenever runEach is ready to accept a name or is starting the next
\* command, the child of every earlier run has exited and been waited for
\* and runEach itself has received the done signal of that run.
C6_NonServiceSerial ==
    \A r \in ExecRules : ~reflexes[r].startService =>
        /\ Cardinality(Alive(r)) <= 1
        /\ thr[r]["each"].pc \in {"recv", "rc_new", "rc_lock", "rc_start"} =>
            \A c \in DOMAIN cmds[r] : c # thr[r]["each"].cmd =>
                /\ cmds[r][c].state = "reaped"
                /\ cmds[r][c].recvBy = "each"

\* C6 witness: the child of the second run is alive after the first run
\* ended and runEach received its done signal.
C6_Witness ==
    \E r \in ExecRules :
        /\ ~reflexes[r].startService
        /\ Len(cmds[r]) = 2
        /\ cmds[r][1].state = "reaped" /\ cmds[r][1].recvBy = "each"
        /\ cmds[r][2].state = "alive"

\* C7: for a service rule, at most one child process of the rule is alive
\* in every reachable state, the initial start made by main included.
C7_ServiceNeverOverlaps ==
    \A r \in ExecRules : reflexes[r].startService =>
        Cardinality(Alive(r)) <= 1

\* C8: in every call of terminate, killed is set first and the Ctrl-C byte
\* is written next; SIGINT is sent only after the timeout elapsed, SIGKILL
\* only after SIGINT and one more timeout; no signal is sent once done was
\* received; and terminate returns only right after done was received or
\* the kill reported "no such process".
C8_TerminationOrder ==
    \A r \in ExecRules, t \in Threads :
        LET log == thr[r][t].log IN
        /\ log # <<>> => reflexes[r].killed
        /\ thr[r][t].pc \in TermPcs \ {"t_kill"} => log # <<>>
        /\ thr[r][t].pc \in TermPcs => "return" \notin Range(log)
        /\ (thr[r][t].pc \notin TermPcs /\ log # <<>>) =>
                log[Len(log)] = "return"
        /\ \A i \in 1..Len(log) :
            /\ log[i] = "killed" <=> i = 1
            /\ log[i] = "ctrlc" <=> i = 2
            /\ log[i] = "sigint" =>
                \E j \in 1..(i - 1) : log[j] = "timeout"
            /\ log[i] = "sigkill" =>
                \E j, k \in 1..(i - 1) :
                    j < k /\ log[j] = "sigint" /\ log[k] = "timeout"
            /\ log[i] \in {"sigint", "sigkill"} =>
                \A j \in 1..(i - 1) : log[j] # "done"
            /\ log[i] = "return" => i > 1 /\ log[i - 1] \in {"done", "esrch"}

\* C8 witness: a call of terminate sent SIGINT after the timeout, then
\* received done and returned.
C8_Witness ==
    \E r \in ExecRules, t \in Threads :
        thr[r][t].log =
            <<"killed", "ctrlc", "timeout", "sigint", "done", "return">>

\* C9: when terminate has sent SIGINT and waits for a child that only
\* SIGKILL ends, SIGKILL is eventually sent (or the process has ended).
C9_EscalatesToKill ==
    \A r \in ExecRules, t \in Threads :
        (/\ thr[r][t].pc = "t_wait"
         /\ "sigint" \in Range(thr[r][t].log)
         /\ thr[r][t].ch # Nil
         /\ cmds[r][thr[r][t].ch].state = "alive"
         /\ cmds[r][thr[r][t].ch].stubborn)
        ~> ("sigkill" \in Range(thr[r][t].log) \/ halt # "run")

\* C10: outside of shutdown, once the goroutine waiting for a child has
\* decided on the error exit line, the line was sent exactly when the exit
\* status is nonzero and no terminate was called on that run.
C10_ErrorExitReporting ==
    cleanupPc = "idle" =>
        \A r \in ExecRules : \A c \in DOMAIN cmds[r] :
            cmds[r][c].wpc \in {"send", "unlock", "fin"} =>
                (cmds[r][c].reported <=>
                    (cmds[r][c].status = "err" /\ ~cmds[r][c].termInit))

\* C11: when pty.Start fails in a runCommand called by runEach (here for a
\* rule that is not a service: runEach goes on to "<-reflex.done"), runEach
\* eventually is back at "range names", ready for the next name, unless
\* the process has ended.
C11_SpawnFailureNotFatal ==
    \A r \in ExecRules :
        (/\ thr[r]["each"].pc = "w_enter"
         /\ cmds[r] # <<>>
         /\ cmds[r][Len(cmds[r])].state = "failed")
        ~> (thr[r]["each"].pc = "recv" \/ halt # "run")

\* ------------------------------------------- claims: sequential mode, output

\* The runs, of all rules, whose child is between its spawn and its exit.
Executing ==
    {x \in RuleIds \X Runs :
        x[2] \in DOMAIN cmds[x[1]] /\ cmds[x[1]][x[2]].state = "alive"}

\* C12: with --sequential, at most one child over all rules is executing,
\* and it is the child of the run that holds seqCommands.
C12_SequentialMutex ==
    flagSequential =>
        /\ Cardinality(Executing) <= 1
        /\ \A x \in Executing : seqCommands = x

\* C12 witness: the child of one rule is executing while runCommand for the
\* other rule waits for seqCommands.
C12_Witness ==
    /\ flagSequential
    /\ \E r, q \in RuleIds :
        /\ r # q
        /\ \E c \in DOMAIN cmds[r] : cmds[r][c].state = "alive"
        /\ thr[q]["each"].pc = "rc_lock"

\* The place of a run in the order in which the runs locked seqCommands.
LockPos(x) == CHOOSE i \in 1..Len(seqOrder) : seqOrder[i] = x

\* The run a written chunk belongs to.
RunOf(w) == <<w.msg.reflexID, w.msg.run>>

\* C13: with --sequential, the lines on os.Stdout are in the order in which
\* their runs locked seqCommands: no line of a run is written after a line
\* of a run that locked seqCommands later.
C13_SequentialBlocks ==
    flagSequential =>
        \A i, j \in 1..Len(outWriter) :
            (/\ i < j
             /\ outWriter[i].kind = "text"
             /\ outWriter[j].kind = "text")
            => LockPos(RunOf(outWriter[i])) <= LockPos(RunOf(outWriter[j]))

\* The writes printMsg makes for the messages of a sequence, in order.
RECURSIVE PrintAll(_)
PrintAll(msgs) ==
    IF msgs = <<>> THEN <<>>
    ELSE PrintMsg(Head(msgs)) \o PrintAll(Tail(msgs))

\* The chunks of a sequence that printMsg wrote.
RECURSIVE Printed(_)
Printed(w) ==
    IF w = <<>> THEN <<>>
    ELSE IF Head(w).kind = "reason" THEN Printed(Tail(w))
    ELSE <<Head(w)>> \o Printed(Tail(w))

\* Whether a chunk is the last write of printMsg for its message.
EndsLine(w) ==
    \/ w.kind = "reason"
    \/ LET p == PrintMsg(w.msg) IN w = p[Len(p)]

\* The messages alone: the channel holds those sent and not yet received,
\* in the order of the sends, and what printOutput wrote is what printMsg
\* writes for the messages received, in that order.
OutputOrderOfMessages ==
    LET taken == Len(putLog) - Len(stdout) IN
    /\ taken >= 0
    /\ stdout = SubSeq(putLog, taken + 1, Len(putLog))
    /\ Printed(outWriter) \o printPc.rest = PrintAll(SubSeq(putLog, 1, taken))

\* C14: the messages are written whole and in the order in which they were
\* sent on stdout, and no line is split or merged with another: nothing
\* else is written to os.Stdout in the middle of the writes of a message.
C14_OutputOrder ==
    /\ OutputOrderOfMessages
    /\ \A i \in 2..Len(outWriter) :
        outWriter[i].kind = "reason" => EndsLine(outWriter[i - 1])

\* --------------------------------------------------------- claims: cleanup

\* C15: cleanup starts terminate for every rule that has a running child
\* when cleanup looks at the rule; the process exits only when every
\* terminate that cleanup started has returned; and cleanup runs once.
C15_CleanupTerminatesAll ==
    /\ \A r \in ExecRules :
        thr[r]["clean"].pc = "skip" => thr[r]["clean"].cmd = Nil
    /\ halt = "exited" =>
        /\ cleanupPc = "exit"
        /\ \A r \in ExecRules : thr[r]["clean"].pc \in {"skip", "fin"}
        /\ \A r \in ExecRules : thr[r]["clean"].pc = "fin" =>
            LET log == thr[r]["clean"].log IN
            log # <<>> /\ log[Len(log)] = "return"
    /\ cleanupPc = "idle" =>
        \A r \in ExecRules : thr[r]["clean"].pc = "off"

\* The parts of C15 about the exit and the single run of cleanup.
CleanupExitsAfterTerminate ==
    /\ halt = "exited" =>
        /\ cleanupPc = "exit"
        /\ \A r \in ExecRules : thr[r]["clean"].pc \in {"skip", "fin"}
        /\ \A r \in ExecRules : thr[r]["clean"].pc = "fin" =>
            LET log == thr[r]["clean"].log IN
            log # <<>> /\ log[Len(log)] = "return"
    /\ cleanupPc = "idle" =>
        \A r \in ExecRules : thr[r]["clean"].pc = "off"

\* --------------------------------------------------------- claims: the watcher

\* C16: an event whose operations are nothing but Chmod is never sent on
\* names, whether or not its path still exists.
C16_ChmodOnlyNeverEmitted ==
    \A i \in 1..Len(names) : ~ChmodOnly(names[i].op)

\* The part of C16 for a path that exists when the watcher looks at it.
ChmodOnlyOfExistingDropped ==
    \A i \in 1..Len(names) :
        ChmodOnly(names[i].op) => names[i].stat = "notexist"

\* C17: an event for a path that no longer exists never has the command of
\* a rule run, whatever onlyFiles and onlyDirs of the rule are.
C17_DeletionsDoNotTrigger ==
    \A r \in RuleIds : \A t \in Range(triggered[r]) :
        names[t].stat # "notexist"

\* The part of C17 for the rules with onlyFiles or onlyDirs: the name of a
\* path that does not exist when the rule's filter looks at it is dropped.
OnlyFilterDropsMissing ==
    [][\A r \in RuleIds :
        /\ watchRules[r].only # "none"
        /\ triggered'[r] # triggered[r]
        => Clean(names[fidx[r] + 1].path) \in fsExists]_vars

\* The normalized paths of the directories.
DirPaths == {Normalize(d, TRUE) : d \in WDirs}

\* C18: a directory is added to the watcher only if some rule's matcher
\* does not exclude its normalized path, and no directory at or below a
\* directory that every rule excludes is added.
C18_DirectoryPruning ==
    \A d \in watched :
        /\ ~Ignore(d)
        /\ \A e \in DirPaths : Ignore(e) => ~HasPrefix(d, e)

\* The walk of the root has skipped "a/", which every rule excludes, while
\* "a/b/" below it exists and is not excluded by every rule.
C18_Witness ==
    /\ watchPc = "loop"
    /\ nFs = 0
    /\ {DirA, DirAB} \subseteq fsExists
    /\ Ignore(Normalize(DirA, TRUE))
    /\ ~Ignore(Normalize(DirAB, TRUE))
    /\ lastWalk = [root |-> Root, added |-> {Normalize(Root, TRUE)}]
    /\ watched = {Normalize(Root, TRUE)}

\* -------------------------------------------------------- claims: the matcher

\* C19: when ExcludePrefix of the rule's matcher returned true for a
\* prefix, Match is false for every name that has the prefix.
C19_ExcludePrefixSound ==
    mret.op = "ExcludePrefix" /\ mret.res =>
        \A s \in Strs : HasPrefix(s, mret.arg) => ~MultiMatch(matchers, s)

\* The part of C19 for the matchers without the regex "/\B": no false
\* positive.
SoundWithoutNoWordBoundary ==
    (\A k \in 1..Len(matchers) :
        matchers[k].kind = "regex" =>
            ~HasOp(matchers[k].pat.re, {"NoWordBoundary"}))
    => C19_ExcludePrefixSound

\* The operations of $ (with and without the flag m), \z and \b.
EndAssertions == {"EndLine", "EndText", "WordBoundary"}

\* The regexMatchers that the last ExcludePrefix has called.
CalledRegex ==
    {k \in 1..Len(matchers) :
        /\ mret.op = "ExcludePrefix"
        /\ mret.sub[k] # "none"
        /\ matchers[k].kind = "regex"}

PatternMatches(m, name) ==
    CASE m.kind = "all" -> TRUE
      [] m.kind = "glob" -> FilepathMatch(m.pat, name).matches
      [] m.kind = "regex" -> MatchString(m.pat.re, name)

\* The first part of C21: Match of the multiMatcher is the AND of Match of
\* its matchers, and ExcludePrefix the OR of their ExcludePrefix.
MultiMatcherAndOr ==
    /\ mret.op = "Match" =>
        (mret.res <=> \A k \in 1..Len(matchers) :
                        MatchOf(matchers[k], mret.arg))
    /\ mret.op = "ExcludePrefix" =>
        (mret.res <=> \E k \in 1..Len(matchers) :
                        ExcludePrefixOf(matchers[k], mret.arg))

\* C21: Match of the multiMatcher is the AND of Match of its matchers and
\* ExcludePrefix the OR of their ExcludePrefix, and the matcher made by
\* ParseMatchers selects a name if and only if the name matches every
\* pattern that is not inverse and no pattern that is.
C21_MultiMatcherLaws ==
    /\ MultiMatcherAndOr
    /\ mret.op = "Match" =>
        (mret.res <=> \A k \in 1..Len(matchers) :
                        PatternMatches(matchers[k], mret.arg)
                            # matchers[k].inverse)

\* The second part of C21 for the matchers whose globs are patterns.
SelectsByPatterns ==
    /\ mret.op = "Match"
    /\ \A k \in 1..Len(matchers) :
        matchers[k].kind = "glob" => ~BadPattern(matchers[k].pat)
    => (mret.res <=> \A k \in 1..Len(matchers) :
                        PatternMatches(matchers[k], mret.arg)
                            # matchers[k].inverse)

\* --------------------------------------------------------- claims: the filter

\* C22: a name taken by the filter of a rule is sent on if and only if the
\* matcher of the rule matches it and, with onlyFiles or onlyDirs, the stat
\* of it succeeded and gave the kind asked for; the names sent on are the
\* names taken, as they came and in the order they came; and after a stat
\* that failed nothing is sent and the filter takes the names that follow.
C22_PerRuleFilter ==
    \A r \in RuleIds :
        /\ Len(flog[r]) = fidx[r]
        /\ \A i \in 1..Len(flog[r]) :
            LET name == names[i].path
                st == flog[r][i].stat
                only == watchRules[r].only
            IN  /\ flog[r][i].out # <<>> <=>
                    /\ Match(r, name)
                    /\ only # "none" =>
                        /\ st.err = "nil"
                        /\ only = "files" => ~st.dir
                        /\ only = "dirs" => st.dir
                /\ flog[r][i].out \in {<<>>, name}
        /\ triggered[r] = SelectSeq([i \in 1..Len(flog[r]) |-> i],
                                    LAMBDA i : flog[r][i].out # <<>>)

\* The filter of a rule with onlyFiles or onlyDirs has dropped a name whose
\* stat failed and has sent on the name that came after it.
C22_Witness ==
    \E r \in RuleIds : \E i \in 1..Len(flog[r]) :
        /\ watchRules[r].only # "none"
        /\ flog[r][i].stat.err \in {"notexist", "other"}
        /\ flog[r][i].out = <<>>
        /\ i + 1 <= Len(flog[r])
        /\ flog[r][i + 1].out = names[i + 1].path

\* ------------------------------------------------------- claims: NewReflex

\* The Config of the last call is one that the rule construction rejects.
InvalidConfig ==
    \/ Len(nrArg.command) = 0
    \/ nrArg.subSymbol = <<>>
    \/ /\ nrArg.startService
       /\ \E k \in 1..Len(nrArg.command) :
            Contains(nrArg.command[k], nrArg.subSymbol)
    \/ nrArg.onlyFiles /\ nrArg.onlyDirs

\* Every rule that was made: a service has no substitution, and at most
\* one of onlyFiles and onlyDirs is set.
MadeRuleIsValid ==
    nrRet.reflex # NoReflex =>
        /\ nrRet.reflex.startService => nrRet.reflex.backlog.kind = "unified"
        /\ nrRet.reflex.startService =>
            \A k \in 1..Len(nrRet.reflex.command) :
                ~Contains(nrRet.reflex.command[k], nrRet.reflex.subSymbol)
        /\ ~(nrRet.reflex.onlyFiles /\ nrRet.reflex.onlyDirs)

C24_DebounceHoldsBack ==
    [][/\ (batchPc' = "draining" /\ batchPc # "draining") =>
            /\ batchPc = "collecting"
            /\ timer = "fired"
            /\ timerSet = nArr - Len(cycArr) + 1
       /\ nHanded' # nHanded => batchPc = "draining"
       /\ batchPc' = "collecting" => nHanded' = nHanded
       /\ (batchPc = "idle" /\ batchPc' # "idle") =>
            batchPc' = "collecting" /\ timer' = "armed"]_vars

\* The timer has fired for a burst of two paths, the batcher drains and
\* offers the first of them, and nothing was handed over before.
C24_Witness ==
    /\ batchPc = "draining"
    /\ timer = "none"
    /\ nHanded = 0
    /\ Len(cycArr) = 2
    /\ offer = cycArr[1]
    /\ execPc = "recv"

\* C25: while the batcher collects, each further path creates the timer
\* anew: the timer it waits for is the one created at the most recent
\* arrival, so it starts draining a full interval after that arrival.
C25_TimerResetByArrival ==
    batchPc = "collecting" => timerSet = nArr

\* The timer the batcher waits for while it collects is the one created at
\* the first arrival of the burst.
TimerOfFirstArrival ==
    batchPc = "collecting" =>
        /\ timer \in {"armed", "fired"}
        /\ timerSet = nArr - Len(cycArr) + 1

\* C26: while it is idle, collecting or draining, whatever the executor
\* does, the batcher is ready to take the next path and add it to the
\* backlog.
C26_NeverBlockedByExecutor ==
    /\ batchPc \in {"idle", "collecting", "draining"}
    /\ nArr < MaxArrivals =>
        \A name \in Paths :
            ENABLED (\/ BatchFirst(name)
                     \/ BatchCollect(name)
                     \/ BatchDrainRecv(name))

\* The batcher drains and the executor runs a command; a path that came
\* after a hand-off of the same cycle is in the backlog.
C26_Witness ==
    /\ batchPc = "draining"
    /\ execPc = "busy"
    /\ cycLate
    /\ nArr < MaxArrivals

\* ------------------------------------------ claims: the sequential mutex

\* The run that holds seqCommands has a child to wait for: pty.Start has
\* not failed for it.
HolderHasChild ==
    seqCommands # <<>> => cmds[seqCommands[1]][seqCommands[2]].state # "failed"

\* The goroutine that is at seqCommands.Unlock() belongs to the run that
\* holds seqCommands, and the child of that run has exited.
UnlockByHolder ==
    \A r \in RuleIds : \A c \in DOMAIN cmds[r] :
        cmds[r][c].wpc = "unlock" =>
            /\ seqCommands = <<r, c>>
            /\ cmds[r][c].state = "reaped"

\* C27: with --sequential, seqCommands is released by the run that locked
\* it, once its child has exited; it is never left locked by a run whose
\* spawn failed, and never unlocked by a run that does not hold it.
C27_MutexReleasedByItsRun ==
    flagSequential => HolderHasChild /\ UnlockByHolder

\* A run whose pty.Start failed has returned from runCommand, and
\* seqCommands stays locked in its name while another rule waits for it.
LockedAfterFailedStart ==
    /\ seqCommands # <<>>
    /\ cmds[seqCommands[1]][seqCommands[2]].state = "failed"
    /\ \A t \in Threads : thr[seqCommands[1]][t].cmd # seqCommands[2]
    /\ \E q \in RuleIds : thr[q]["each"].pc = "rc_lock"

\* ------------------------------------------------ claims: the fatal path

\* terminate(reflex) has been called for the rule and has not returned, or
\* the call cleanup made for it has returned.
TerminateAttempted(r) ==
    \/ \E t \in Threads : thr[r][t].pc \in {"t_kill", "t_write", "t_enter",
                                            "t_wait", "t_signal"}
    \/ thr[r]["clean"].pc = "fin"

\* C28: when main takes the fatal exit on an error of the watcher, terminate
\* has been attempted on every rule that has a running child.
C28_FatalPathTerminates ==
    halt = "fatal" =>
        \A r \in ExecRules : RunningChild(r) # Nil => TerminateAttempted(r)

\* ------------------------------------------- claims: the state of a rule

\* Two goroutines are each about to access the same field of the rule, one
\* of them writes it, and they do not both hold reflex.mut.
Race(r, field) ==
    \E a, b \in TasksOf(r) :
        /\ a # b
        /\ \E x \in AccessesOf(r, a), y \in AccessesOf(r, b) :
            /\ x.field = field
            /\ y.field = field
            /\ x.write \/ y.write
            /\ ~(x.locked /\ y.locked)

\* C29: the killed flag and the child handles of a rule (cmd, tty, done) are
\* read and written under the mutex of the rule, so that no two goroutines
\* access one of them concurrently.
C29_LockProtected ==
    Running =>
        \A r \in ExecRules : \A field \in {"killed", "cmd", "tty", "done"} :
            ~Race(r, field)

\* The killed flag is accessed under reflex.mut only, and without a race.
KilledLockProtected ==
    Running =>
        \A r \in ExecRules :
            /\ ~Race(r, "killed")
            /\ \A a \in TasksOf(r) : \A x \in AccessesOf(r, a) :
                    x.field = "killed" => x.locked

\* cleanup reads reflex.done while runEach is about to write it.
RaceOnDone ==
    /\ Running
    /\ \E r \in ExecRules :
        /\ AccessesOf(r, <<"scan", "none", 0>>) # {}
        /\ thr[r]["each"].pc \in {"rc_done", "w_clear"}

\* The goroutines of a service rule access reflex.cmd concurrently.
RaceOnCmd == Running /\ \E r \in ExecRules : Race(r, "cmd")

\* ------------------------------------------- claims: the emitted paths

\* A path in the form normalize gives it: no "./" at its start, and "/" at
\* its end when it names a directory of the tree.
Normalized(path) ==
    /\ ~HasPrefix(path, <<".", "/">>)
    /\ Clean(path) \in WDirs => HasSuffix(path, <<"/">>)

\* C30: every path watch sends on names is normalized, the paths that did
\* not exist any more when they were stat'ed included.
C30_EmittedPathsNormalized ==
    \A i \in 1..Len(names) : Normalized(names[i].path)

\* The paths that existed when they were stat'ed are sent normalized.
ExistingPathsNormalized ==
    \A i \in 1..Len(names) :
        names[i].stat = "nil" => Normalized(names[i].path)

\* A directory that was removed is sent on names as fsnotify named it.
RemovedDirSentRaw ==
    \E i \in 1..Len(names) :
        /\ names[i].stat = "notexist"
        /\ "Remove" \in names[i].op
        /\ names[i].path = DirAB

\* ------------------------------------------------ claims: the broadcaster

\* C31: every name watch has sent is received by each rule once and in the
\* order of sending, the rules taking a name in the order of outs; a name
\* is taken from watch only when the name before it has been received by
\* every rule, and a name not yet received by a rule can be received.
C31_BroadcastDelivery ==
    /\ \A r \in RuleIds :
        /\ fidx[r] <= Len(names)
        /\ Len(names) <= fidx[r] + 1
        /\ Len(flog[r]) = fidx[r]
        /\ \A k \in 1..Len(flog[r]) :
                flog[r][k].out \in {<<>>, names[k].path}
    /\ \A q, r \in RuleIds : q < r => fidx[q] >= fidx[r]
    /\ (watchPc # "panic" /\ \E r \in RuleIds : fidx[r] < Len(names)) =>
            \E r \in RuleIds : ENABLED FilterMatching(r)

\* C31 witness: the second name has been received by the first rule and
\* not yet by the second, which has received the first name.
C31_Witness ==
    /\ Len(names) = 2
    /\ fidx[1] = 2
    /\ fidx[2] = 1
    /\ flog[1][2].out = names[2].path

\* --------------------------------------------- claims: the backlog made

\* A word of the command of the Config contains its substitution symbol.
HasSubstitution ==
    \E k \in 1..Len(nrArg.command) :
        \E i \in 0..(Len(nrArg.command[k]) - Len(nrArg.subSymbol)) :
            SubSeq(nrArg.command[k], i + 1, i + Len(nrArg.subSymbol))
                = nrArg.subSymbol

\* C32: the backlog of every rule NewReflex makes is a UniqueFilesBacklog
\* when a word of the command contains the substitution symbol and a
\* UnifiedBacklog when none does, and it is empty.
C32_BacklogFollowsSubstitution ==
    nrRet.out = "ok" =>
        /\ nrRet.reflex.backlog.empty
        /\ nrRet.reflex.backlog.kind \in {"unique", "unified"}
        /\ nrRet.reflex.backlog.kind = "unique" <=> HasSubstitution
        /\ nrRet.reflex.backlog.kind = "unique" =>
            /\ nrRet.reflex.backlog.next = NoPath
            /\ nrRet.reflex.backlog.rest = {}
        /\ nrRet.reflex.backlog.kind = "unified" =>
            Next(nrRet.reflex.backlog).panic

\* C32 witness: a rule was made for a command with a word that has the
\* substitution symbol inside it, and one without it.
C32_Witness ==
    /\ nrRet.out = "ok"
    /\ nrRet.reflex.backlog = NewUniqueFilesBacklog
    /\ nrArg.command = <<<<"e">>, <<"a", "{", "}">>>>
    /\ nrArg.subSymbol = <<"{", "}">>

\* ------------------------------------------- claims: invalid patterns

\* C33: no matcher that ParseMatchers has made holds a pattern that is not
\* valid: a glob for which filepath.Match returns ErrBadPattern.
C33_NoInvalidPattern ==
    \A k \in 1..Len(matchers) :
        matchers[k].kind = "glob" => ~BadPattern(matchers[k].pat)

\* Match was called on a matcher that holds a glob that is not valid.
MatchOnInvalidGlob ==
    /\ mret.op = "Match"
    /\ \E k \in 1..Len(matchers) :
        matchers[k].kind = "glob" /\ BadPattern(matchers[k].pat)

\* ------------------------------------------------ claims: the tag colour

\* The tags written in fancy decoration.
FancyTags ==
    {i \in 1..Len(outWriter) :
        outWriter[i].kind = "tag" /\ decoration = "fancy"}

\* C34: in fancy decoration the colour code written with the tag of a
\* message is 32 + (id mod 5), a value in 32..36, when the id of the message
\* is not negative, and 31 when it is negative, whatever the number of
\* rules made is.
C34_FancyTagColour ==
    \A i \in FancyTags :
        LET id == outWriter[i].msg.reflexID IN
        /\ id >= 0 =>
            /\ outWriter[i].color = 32 + (id % 5)
            /\ outWriter[i].color \in 32..36
        /\ id < 0 => outWriter[i].color = 31

\* C34 witness: with two rules made, the tag of a message of rule 6 was
\* written with the colour 33 and the tag of an info message with 31.
C34_Witness ==
    /\ reflexID = 2
    /\ \E i, j \in FancyTags :
        /\ outWriter[i].msg.reflexID = 6
        /\ outWriter[i].color = 33
        /\ outWriter[j].msg.reflexID = -1
        /\ outWriter[j].color = 31

\* ------------------------------------- claims: the batcher and its backlog

\* C35: the batcher never calls Next or RemoveOne on an empty backlog: it
\* never panics, its backlog is not empty from the first path of a cycle
\* to the end of the cycle, and while it drains, the path it offers is the
\* one Next returns.
C35_BatcherNeverFaults ==
    /\ batchPc # "panic"
    /\ batchPc \in {"collecting", "draining"} =>
        /\ ~backlog.empty
        /\ ~Next(backlog).panic
        /\ \A r \in RemoveOne(backlog) : ~r.panic
    /\ batchPc = "draining" => offer = Next(backlog).val
    /\ batchPc = "idle" => backlog.empty

\* C35 witness: a UniqueFilesBacklog after a hand-off and a RemoveOne that
\* left paths in it, one of which arrived while the batcher was draining.
C35_Witness ==
    /\ batchPc = "draining"
    /\ backlog.kind = "unique"
    /\ nHanded > 0
    /\ cycHanded # <<>>
    /\ cycLate
    /\ backlog.rest # {}

\* C36: no change is lost. A path the batcher has received is followed by
\* a hand-off to the executor, of that path with a UniqueFilesBacklog and
\* of some path with a UnifiedBacklog, when the timer fires and the
\* executor accepts; the batcher does not go back to wait for the first
\* path of a cycle while a path it received has had no hand-off.
C36_NoChangeLost ==
    /\ [](batchPc = "idle" => pending = {})
    /\ \A p \in Paths : (p \in pending) ~> (p \notin pending)

\* C36 witness: with a UniqueFilesBacklog, a path arrived while the
\* command was running on a path handed over before and while another path
\* was on offer; both have had no hand-off yet.
C36_Witness ==
    /\ backlog.kind = "unique"
    /\ batchPc = "draining"
    /\ execPc = "busy"
    /\ cycLate
    /\ Cardinality(pending) = 2

\* C37: no spurious run. The path on offer to the executor is one the
\* batcher has received and not handed over since, so each hand-off follows
\* an arrival (of that path, with a UniqueFilesBacklog) that no earlier
\* hand-off has answered; the hand-offs are never more than the arrivals.
C37_NoSpuriousRuns ==
    /\ batchPc = "draining" =>
        /\ offer \in pending
        /\ \E k \in 1..Len(cycArr) : cycArr[k] = offer
    /\ nHanded <= nArr
    /\ backlog.kind = "unified" => nHanded <= nCycles + 1
    /\ nRuns <= nHanded

\* C37 witness: a path that was handed over arrived again and is on offer
\* for the second time in the cycle.
C37_Witness ==
    /\ backlog.kind = "unique"
    /\ batchPc = "draining"
    /\ \E k \in 1..Len(cycHanded) : cycHanded[k] = offer
    /\ offer \in pending

\* --------------------------------------------- claims: the end of cleanup

\* C38: once cleanup has started, the process eventually exits.
C38_CleanupCompletes ==
    (cleanupPc = "scan") ~> (halt # "run")

\* cleanup waits for a terminate that can take no step: the child has been
\* waited for, its done signal was taken by runEach, the timer of terminate
\* is spent, and no goroutine is left to send on the channel terminate
\* receives from.
CleanupStuck ==
    /\ halt = "run"
    /\ cleanupPc = "scan"
    /\ \E r \in ExecRules :
        /\ thr[r]["clean"].pc = "t_wait"
        /\ thr[r]["clean"].timer = "spent"
        /\ \A c \in DOMAIN cmds[r] :
            /\ cmds[r][c].state \in {"reaped", "failed"}
            /\ cmds[r][c].wpc \in {"none", "fin"}
            /\ cmds[r][c].recvBy # "clean"

\* ------------------------------------------------- claims: a failing stat

\* C39: whatever error os.Stat returns for the path of an event, watch does
\* not crash and does not end: it stays in its loop over the events.
C39_StatErrorKeepsWatching == watchPc \in {"start", "loop"}

\* A stat that says the path does not exist leaves watch in its loop.
NotExistKeepsWatching ==
    [][(/\ Len(names') > Len(names)
        /\ names'[Len(names')].stat = "notexist") => watchPc' = "loop"]_vars

\* watch has crashed with events left that it will not take.
WatchCrashedWithEvents == watchPc = "panic" /\ wevents # <<>>

\* ------------------------------------- claims: the shape of the file set

\* C40: in a UniqueFilesBacklog, after any calls of Add, Next and RemoveOne,
\* the next path is never a member of the rest set, and an empty backlog has
\* an empty rest set and the empty string as its next path.
C40_UniqueStructure ==
    bl.kind = "unique" =>
        /\ bl.next \notin bl.rest
        /\ bl.empty => (bl.rest = {} /\ bl.next = NoPath)

\* RemoveOne has promoted a path out of a rest set that still holds another,
\* after the path that was next had been added again.
C40_Witness ==
    /\ bl.kind = "unique"
    /\ ret.op = "RemoveOne"
    /\ ~ret.panic
    /\ ~bl.empty
    /\ bl.rest # {}
    /\ bl.next \in ret.before.rest
    /\ \E k \in 2..Len(blAdds) : blAdds[k] = blAdds[1]

====
